---- MODULE Spec2Model ----
(***************************************************************************)
(* DocuMind RAG core: the per-tenant vector index, the session validator   *)
(* with the relational store and its query-result cache, the rate limiter, *)
(* the SQLite connection pool and the verification-code store.             *)
(*                                                                         *)
(* Each subsystem has its own next-state relation and specification over   *)
(* the shared variable tuple; the variables of the other subsystems stay   *)
(* at their initial values.                                                *)
(***************************************************************************)
EXTENDS Integers, Sequences, FiniteSets, TLC

VARIABLES
    \* ---- vector index (custom_rag.py, CustomVectorDB) ----
    documents,      \* table documents: set of rows [id, filename]
    chunks,         \* table chunks (committed rows, in rowid order)
    nextDocId,      \* AUTOINCREMENT counter of documents
    pending,        \* the open write transaction of add_document, or NoTxn
    searchOut,      \* the last call of search and what it returned
    \* ---- relational store, query cache, session validator ----
    conversations,  \* table conversations: set of rows [id, user_id, updated_at]
    nextConvId,     \* AUTOINCREMENT counter of conversations
    messages,       \* table messages: rows [id, conversation_id, role]
    memory_cache,   \* CacheManager.memory_cache + memory_cache_ttl
    valOut,         \* the last call of validate_conversation_access
    \* ---- rate limiter ----
    request_counts, \* RateLimiter.request_counts: key -> list of timestamps
    blacklist,      \* RateLimiter.blacklist: user -> blocked_until
    rlOut,          \* the last call of check_rate_limit
    admitted,       \* ghost: instants admitted per key since the key was absent
    denials,        \* ghost: instants of the quota denials of each user
    calls,          \* number of check_rate_limit calls made
    resets,         \* number of reset_user_limits calls made
    threads,        \* the threads inside check_rate_limit (threaded model)
    \* ---- connection pool ----
    pool,           \* SQLiteConnectionPool.pool: the queue of idle connections
    pthreads,       \* the threads using get_db_connection
    conn_txn,       \* per connection: the writes of its open transaction
    db_rows,        \* the committed writes of the database
    nextWrite,      \* the next write's identity
    scopes,         \* ghost: the writes of the scopes that ended well / badly
    poolOut,        \* the last step's get_connection or scope exit
    \* ---- verification codes ----
    verification_codes, \* ConfigManager._verification_codes
    verification_lock,  \* the holder of _verification_lock, 0 when free
    vthreads,           \* the threads inside verify_code
    verified,           \* ghost: per email, the verifications that returned
                        \* True since its code was last set
    vOut,               \* the verify_code call that returned in the last step
    \* ---- ConfigManager locks ----
    cm_locks,           \* holder of _configs_lock, _sessions_lock and
                        \* _verification_lock, 0 when free
    cm_threads,         \* the threads inside ConfigManager operations
    \* ---- a mutating database function in flight ----
    cwriter,            \* create/delete/update-title between its SQL
                        \* statement, its cache.delete calls and its commit
    \* ---- semantic cache ----
    sem_cache,          \* SemanticCache.memory_cache: the list of entries
    sem_threads,        \* the threads inside CachedRAGSystem.answer
    semOut,             \* the answer() call that returned in the last step
    \* ---- request handlers (main.py) ----
    user_documents,     \* table user_documents: rows [id, user_id, conversation_id]
    temp_files,         \* the temporary files that exist on disk
    documents_loaded,   \* the session flag documents_loaded of the user
    nextTemp,           \* the next temporary file's identity
    chat,               \* the send_message requests suspended at an await
    handled,            \* number of requests the handlers have started
    reqOut,             \* the request whose handling ended in the last step
    \* ---- two-level index (two_level_indexing.py) ----
    tl_documents,  \* table documents of the two-level index
    tl_summaries,  \* table document_summaries, in rowid order
    tl_chunks,  \* table chunks of the two-level index, in rowid order
    tl_nextDocId,  \* the next AUTOINCREMENT id of documents
    tlOut,  \* the last search_two_level call and its result
    \* ---- retry policy (main.py) ----
    retry,  \* the retry_with_exponential_backoff calls in progress
    \* ---- accounts ----
    users,  \* table users: set of rows [id, username, email, hashed_password]
    authOut,  \* the last call of the accounts model and what it answered
    authCalls,  \* number of calls the accounts model made
    \* ---- SQLiteConnectionPool.close_all ----
    closed_conns,  \* the connections of the pool on which close() was called
    \* ---- CacheManager at capacity ----
    lru_used,  \* ghost: per key, the number of the last operation that read or wrote it
    lru_ops,  \* ghost: the operations made on the cache
    lru_touches,  \* reads and rewrites made of keys already stored
    lru_next,  \* the next key not stored before
    \* ---- error messages ----
    sanOut,  \* the last error an endpoint raised and the detail it answered
    \* ---- chunker ----
    chunkOut,  \* the last text handed to chunk_text and the chunks it returned
    \* ---- wall clock (seconds) ----
    now

(***************************************************************************)
(* Python None / SQL NULL.  Row ids start at 1, so 0 is free to stand for  *)
(* the absent value.                                                       *)
(***************************************************************************)
NULL == 0

\* ------------------------------------------------------------------------
\* Generic helpers
\* ------------------------------------------------------------------------
Range(s) == {s[i] : i \in DOMAIN s}

Min(a, b) == IF a < b THEN a ELSE b

Max(a, b) == IF a > b THEN a ELSE b

RECURSIVE SelectSeq2(_, _)
\* the subsequence of s whose elements are in set S (order kept)
SelectSeq2(s, S) ==
    IF s = <<>> THEN <<>>
    ELSE IF Head(s) \in S THEN <<Head(s)>> \o SelectSeq2(Tail(s), S)
         ELSE SelectSeq2(Tail(s), S)

\* all sequences without repetition over the finite set S, of length n
RECURSIVE Arrangements(_, _)
Arrangements(S, n) ==
    IF n = 0 THEN {<<>>}
    ELSE UNION {{<<x>> \o t : t \in Arrangements(S \ {x}, n - 1)} : x \in S}

\* ========================================================================
\* 1. Vector index: CustomVectorDB
\* ========================================================================

\* bounds of the vector-index model
MaxChunks == 3

\* the values of top_k that the model's searches pass
TopKs == {1, 2}

ConvIds == {1, 2}
Filenames == {"f.pdf", "g.pdf"}
Texts == {"a", "b"}

\* The embedder is deterministic: a chunk text determines its embedding.
\* Small integer components are exactly representable in float32, so the
\* tobytes / frombuffer round trip of the BLOB column keeps them.
Embed(text) ==
    IF text = "a" THEN <<1, 0>> ELSE <<1, 1>>

Queries == {<<1, 0>>}

NoTxn == [open |-> FALSE, doc_id |-> NULL, filename |-> "", rows |-> <<>>]

NoSearch == [called |-> FALSE, conversation_id |-> NULL, top_k |-> 0,
             query |-> <<0, 0>>, ids |-> <<>>]

Dot(a, b) == a[1] * b[1] + a[2] * b[2]

Sign(x) == IF x > 0 THEN 1 ELSE IF x < 0 THEN -1 ELSE 0

\* squared norm, with the zero vector mapped to 1: its similarity is
\* 0 / (0 + 1e-8) = 0, the same as Dot = 0 over any positive norm
Norm2(a) == IF Dot(a, a) = 0 THEN 1 ELSE Dot(a, a)

\* similarities[i] < similarities[j] for embeddings e1, e2 against query q:
\* cosine values are compared exactly through their signed squares,
\* sign(d) * d^2 / |e|^2 (the common factor |q|^2 cancels)
SimLess(e1, e2, q) ==
    LET d1 == Dot(e1, q)
        d2 == Dot(e2, q)
    IN  Sign(d1) * d1 * d1 * Norm2(e2) < Sign(d2) * d2 * d2 * Norm2(e1)

SimEq(e1, e2, q) == ~SimLess(e1, e2, q) /\ ~SimLess(e2, e1, q)

\* SQL comparison `a = b`: never true when a side is NULL
SqlEq(a, b) == a # NULL /\ b # NULL /\ a = b

\* limit = min(500, max(top_k * 50, 100))
SearchLimit(top_k) == Min(500, Max(top_k * 50, 100))

\* SELECT ... FROM chunks WHERE conversation_id = ? AND conversation_id IS
\* NOT NULL LIMIT ?  -- the rows come back in rowid order
SearchRowsNoFilter(table, conversation_id, limit) ==
    SubSeq(table, 1, Min(Len(table), limit))

SearchRows(table, conversation_id, limit) ==
    LET hit == {r \in Range(table) :
                   SqlEq(r.conversation_id, conversation_id)
                   /\ r.conversation_id # NULL}
        sel == SelectSeq2(table, hit)
    IN  SubSeq(sel, 1, Min(Len(sel), limit))

\* The orders in which the top-k step may return the loaded rows.  Both
\* branches (argpartition + argsort of the selection, or argsort of all,
\* each reversed) yield min(top_k, N) rows in non-increasing similarity with
\* every kept row at least as similar as every dropped one; numpy's default
\* sort is not stable, so the order among equal similarities is any.
TopKOrders(rows, q, top_k) ==
    LET n == Min(top_k, Len(rows))
        S == Range(rows)
    IN  {p \in Arrangements(S, n) :
            /\ \A i \in 1..(n - 1) : ~SimLess(p[i].embedding, p[i + 1].embedding, q)
            /\ \A x \in S \ Range(p) : \A i \in 1..n :
                   ~SimLess(p[i].embedding, x.embedding, q)}

\* CustomVectorDB.search: the possible return values
SearchNullScansAll(table, q, top_k, conversation_id) ==
    IF conversation_id = NULL
    THEN TopKOrders(SearchRowsNoFilter(table, conversation_id, SearchLimit(top_k)), q, top_k)
    ELSE TopKOrders(SearchRows(table, conversation_id, SearchLimit(top_k)), q, top_k)

SearchResults(table, q, top_k, conversation_id) ==
    IF conversation_id = NULL
    THEN {<<>>}
    ELSE LET rows == SearchRows(table, conversation_id, SearchLimit(top_k))
         IN  IF rows = <<>> THEN {<<>>} ELSE TopKOrders(rows, q, top_k)

\* add_document, up to the executemany: INSERT OR REPLACE the document row
\* (a row with the same file_hash is deleted, the new row takes a fresh id)
\* and stage one chunk row per (chunk, embedding) pair.  The statements run
\* in one transaction that holds the database file's write lock.
AddDocumentBegin(filename, texts, conversation_id) ==
    /\ ~pending.open
    /\ Len(chunks) + Len(texts) <= MaxChunks
    /\ pending' = [open |-> TRUE, doc_id |-> nextDocId, filename |-> filename,
                   rows |-> [i \in 1..Len(texts) |->
                               [id |-> Len(chunks) + i,
                                document_id |-> nextDocId,
                                conversation_id |-> conversation_id,
                                chunk_text |-> texts[i],
                                chunk_index |-> i - 1,
                                embedding |-> Embed(texts[i])]]]
    /\ UNCHANGED <<documents, chunks, nextDocId, searchOut>>

\* conn.commit(): the staged rows become visible to readers at once
AddDocumentCommit ==
    /\ pending.open
    /\ documents' = {d \in documents : d.filename # pending.filename}
                        \cup {[id |-> pending.doc_id, filename |-> pending.filename]}
    /\ chunks' = chunks \o pending.rows
    /\ nextDocId' = nextDocId + 1
    /\ pending' = NoTxn
    /\ UNCHANGED searchOut

\* an exception inside the try block: conn.rollback() and re-raise
AddDocumentRollback ==
    /\ pending.open
    /\ pending' = NoTxn
    /\ UNCHANGED <<documents, chunks, nextDocId, searchOut>>

\* CustomVectorDB.search on its own connection: it reads the committed rows
Search(q, top_k, conversation_id) ==
    /\ \E res \in SearchResults(chunks, q, top_k, conversation_id) :
           searchOut' = [called |-> TRUE, conversation_id |-> conversation_id,
                         top_k |-> top_k, query |-> q,
                         ids |-> [i \in 1..Len(res) |-> res[i].id]]
    /\ UNCHANGED <<documents, chunks, nextDocId, pending>>

\* ========================================================================
\* 2. Relational store (database.py), query-result cache (cache.py) and
\*    session validator (session_isolation_enhanced.py)
\*
\* The endpoints are coroutines that call these functions synchronously on
\* the event loop, so each function runs to completion before the next.
\* The cache is the in-memory fallback of CacheManager (no Redis server).
\* ========================================================================

\* bounds of the session model
MaxConvs == 2
MaxMessages == 1
MaxTicks == 2
GridStep == 150

UserIds == {1, 2}

\* SessionValidator(expiry_days = 30)
expiry_days == 30

\* timedelta(days = expiry_days), in seconds
ExpirySeconds == expiry_days * 86400

\* @cached(ttl = 300, key_prefix = "conversation")
ConversationTtl == 300

\* CacheManager.max_memory_items and the size of one eviction batch
max_memory_items == 500
EvictBatch == 50

\* The instants the model's clock visits: 0, the instant at which a
\* conversation last touched at 0 is exactly expiry_days old, and a grid of
\* instants after it.
ClockGrid == {0} \cup {ExpirySeconds + i * GridStep : i \in 0..MaxTicks}

DigitChar(d) ==
    CASE d = 0 -> "0" [] d = 1 -> "1" [] d = 2 -> "2" [] d = 3 -> "3"
      [] d = 4 -> "4" [] d = 5 -> "5" [] d = 6 -> "6" [] d = 7 -> "7"
      [] d = 8 -> "8" [] OTHER -> "9"

\* str(n) for n >= 0, as the sequence of its decimal digits
RECURSIVE Str(_)
Str(n) == IF n < 10 THEN <<DigitChar(n)>> ELSE Str(n \div 10) \o <<DigitChar(n % 10)>>

\* ":".join([key_prefix] + [str(arg) for arg in args])
RECURSIVE CacheKey(_, _)
CacheKey(key_prefix, args) ==
    IF args = <<>> THEN <<key_prefix>>
    ELSE CacheKey(key_prefix, SubSeq(args, 1, Len(args) - 1))
             \o <<":">> \o Str(args[Len(args)])

\* memory_cache is a dict: a sequence of entries in insertion order
CacheIndex(mc, key) == {i \in DOMAIN mc : mc[i].key = key}

CacheRemove(mc, keys) == SelectSeq2(mc, {e \in Range(mc) : e.key \notin keys})

\* CacheManager.get: the value returned, as a set (empty for None)
CacheGetValue(mc, key, t) ==
    {mc[i].value : i \in {j \in CacheIndex(mc, key) : t < mc[j].expires}}

\* CacheManager.get: an expired entry is deleted by the read
CacheAfterGet(mc, key, t) ==
    IF \E i \in CacheIndex(mc, key) : ~(t < mc[i].expires)
    THEN CacheRemove(mc, {key})
    ELSE mc

\* CacheManager.set: at capacity the 50 oldest keys are dropped first
CacheSet(mc, key, value, ttl, t) ==
    LET kept == IF Len(mc) >= max_memory_items
                THEN SubSeq(mc, Min(EvictBatch, Len(mc)) + 1, Len(mc))
                ELSE mc
        e == [key |-> key, value |-> value, expires |-> t + ttl]
    IN  IF CacheIndex(kept, key) # {}
        THEN [i \in DOMAIN kept |-> IF kept[i].key = key THEN e ELSE kept[i]]
        ELSE Append(kept, e)

\* CacheManager.delete
CacheDelete(mc, key) == CacheRemove(mc, {key})

\* SELECT * FROM conversations WHERE id = ? AND user_id = ?  (fetchone)
SelectConversation(table, conversation_id, user_id) ==
    {r \in table : r.id = conversation_id /\ r.user_id = user_id}

\* get_conversation_by_id behind @cached: the value returned (a set, empty
\* for None) and the cache it leaves.  None is not cached.
GetConversationById(table, mc, conversation_id, user_id, t) ==
    LET key == CacheKey("conversation", <<conversation_id, user_id>>)
        hit == CacheGetValue(mc, key, t)
        mc1 == CacheAfterGet(mc, key, t)
        row == SelectConversation(table, conversation_id, user_id)
    IN  IF hit # {}
        THEN [result |-> hit, cache |-> mc1, cache_hit |-> TRUE]
        ELSE [result |-> row,
              cache |-> IF row # {}
                        THEN CacheSet(mc1, key, CHOOSE r \in row : TRUE, ConversationTtl, t)
                        ELSE mc1,
              cache_hit |-> FALSE]

\* SessionValidator.is_conversation_expired: age > timedelta(days = expiry_days)
IsConversationExpired(conversation, t) ==
    t - conversation.updated_at > ExpirySeconds

\* SessionValidator.validate_conversation_access on the looked-up
\* conversation (a set, empty for None): (is_valid, error)
ValidateMissingIsOk(conversation, user_id, require_active, t) ==
    IF conversation = {} THEN [ok |-> TRUE, error |-> "none"]
    ELSE LET conv == CHOOSE r \in conversation : TRUE
         IN  IF conv.user_id # user_id THEN [ok |-> FALSE, error |-> "access denied"]
             ELSE IF require_active /\ IsConversationExpired(conv, t)
                  THEN [ok |-> FALSE, error |-> "expired"]
                  ELSE [ok |-> TRUE, error |-> "none"]

ValidateConversationAccess(conversation, user_id, require_active, t) ==
    IF conversation = {} THEN [ok |-> FALSE, error |-> "not found"]
    ELSE LET conv == CHOOSE r \in conversation : TRUE
         IN  IF conv.user_id # user_id THEN [ok |-> FALSE, error |-> "access denied"]
             ELSE IF require_active /\ IsConversationExpired(conv, t)
                  THEN [ok |-> FALSE, error |-> "expired"]
                  ELSE [ok |-> TRUE, error |-> "none"]

NoValidate == [called |-> FALSE, conversation_id |-> NULL, user_id |-> NULL,
               require_active |-> FALSE, ok |-> FALSE, error |-> "none",
               cache_hit |-> FALSE, owners |-> {}, last_activity |-> {},
               cached_for |-> {}, at |-> 0]

\* create_conversation(user_id, title)
CreateConversation(user_id) ==
    /\ nextConvId <= MaxConvs
    /\ conversations' = conversations \cup
           {[id |-> nextConvId, user_id |-> user_id, updated_at |-> now]}
    /\ nextConvId' = nextConvId + 1
    /\ memory_cache' = CacheDelete(memory_cache, CacheKey("conversations", <<user_id>>))
    /\ valOut' = NoValidate
    /\ UNCHANGED messages

\* delete_conversation(conversation_id, user_id)
DeleteConversation(conversation_id, user_id) ==
    LET hit == SelectConversation(conversations, conversation_id, user_id)
    IN  /\ conversations' = conversations \ hit
        /\ memory_cache' =
               IF hit # {}
               THEN CacheDelete(CacheDelete(memory_cache,
                                            CacheKey("conversations", <<user_id>>)),
                                CacheKey("conversation", <<conversation_id, user_id>>))
               ELSE memory_cache
        /\ valOut' = NoValidate
        /\ UNCHANGED <<nextConvId, messages>>

\* update_conversation_title(conversation_id, user_id, new_title)
UpdateConversationTitle(conversation_id, user_id) ==
    LET hit == SelectConversation(conversations, conversation_id, user_id)
    IN  /\ conversations' = (conversations \ hit) \cup
               {[r EXCEPT !.updated_at = now] : r \in hit}
        /\ memory_cache' =
               IF hit # {}
               THEN CacheDelete(CacheDelete(memory_cache,
                                            CacheKey("conversations", <<user_id>>)),
                                CacheKey("conversation", <<conversation_id, user_id>>))
               ELSE memory_cache
        /\ valOut' = NoValidate
        /\ UNCHANGED <<nextConvId, messages>>

\* add_message(conversation_id, role, content): the INSERT and the
\* updated_at bump commit together; no cache entry is touched
AddMessage(conversation_id, role) ==
    /\ Len(messages) < MaxMessages
    /\ messages' = Append(messages, [id |-> Len(messages) + 1,
                                     conversation_id |-> conversation_id,
                                     role |-> role])
    /\ conversations' = {IF r.id = conversation_id
                         THEN [r EXCEPT !.updated_at = now] ELSE r : r \in conversations}
    /\ valOut' = NoValidate
    /\ UNCHANGED <<nextConvId, memory_cache>>

\* validate_conversation_access(conversation_id, user_id, require_active).
\* valOut holds the call the last step made (NoValidate when the last step
\* was another operation), with what the relational store and the cache
\* held at the call.
ValidateAccess(conversation_id, user_id, require_active) ==
    LET got == GetConversationById(conversations, memory_cache,
                                   conversation_id, user_id, now)
        res == ValidateConversationAccess(got.result, user_id, require_active, now)
        row == {r \in conversations : r.id = conversation_id}
    IN  /\ memory_cache' = got.cache
        /\ valOut' = [called |-> TRUE,
                      conversation_id |-> conversation_id,
                      user_id |-> user_id,
                      require_active |-> require_active,
                      ok |-> res.ok,
                      error |-> res.error,
                      cache_hit |-> got.cache_hit,
                      owners |-> {r.user_id : r \in row},
                      last_activity |-> {r.updated_at : r \in row},
                      cached_for |-> {memory_cache[i].value.user_id :
                                        i \in {j \in DOMAIN memory_cache :
                                                 /\ memory_cache[j].key[1] = "conversation"
                                                 /\ memory_cache[j].value.id = conversation_id
                                                 /\ now < memory_cache[j].expires}},
                      at |-> now]
        /\ UNCHANGED <<conversations, nextConvId, messages>>

\* the wall clock moves on to a later instant of the grid
AdvanceClock ==
    /\ \E t \in ClockGrid : t > now /\ now' = t
    /\ valOut' = NoValidate
    /\ UNCHANGED <<conversations, nextConvId, messages, memory_cache>>

\* ========================================================================
\* 3. Rate limiter: RateLimiter (rate_limiting.py)
\* ========================================================================

\* bounds of the rate-limiter model
MaxCalls == 8
MaxResets == 1

\* 5 violations within 10 minutes blacklist the user for 30 minutes
ViolationThreshold == 5
ViolationMinutes == 10
BlacklistMinutes == 30

ViolationWindow == ViolationMinutes * 60

BlacklistSeconds == BlacklistMinutes * 60

\* User identifiers are strings; a string is modelled as the sequence of
\* its pieces, so that concatenation and startswith are what they are.
RLUsers == {<<"al">>}

\* every user name of the rate-limiter models: "al", "alice", whose name
\* extends "al", and "al:x" (UserRegister.username is any string of 3 to
\* 50 characters, the colon included; the short names stand for such)
RLAllUsers == RLUsers \cup {<<"al", "ice">>, <<"al", ":", "x">>}

\* the (operation, cost) pairs the model's callers pass: voice at the
\* default cost of 1, register at a cost that fills its window in one call
RLRequests == {<<"voice", 1>>, <<"register", 3>>}

\* the instants the rate-limiter model's clock visits
RLGrid == {0, 599, 600, 1800}

\* self.limits.get(operation, self.limits["api_default"]):
\* <<max_requests, time_window_seconds>>
Limits(operation) ==
    CASE operation = "chat"          -> <<20, 60>>
      [] operation = "upload"        -> <<10, 60>>
      [] operation = "voice"         -> <<5, 60>>
      [] operation = "login"         -> <<5, 300>>
      [] operation = "register"      -> <<3, 3600>>
      [] operation = "config_update" -> <<10, 60>>
      [] operation = "search"        -> <<30, 60>>
      [] OTHER                       -> <<100, 60>>

\* f"{user_id}:{operation}"
RLKey(user_id, operation) == user_id \o <<":", operation>>

\* key.startswith(prefix)
StartsWith(key, prefix) ==
    Len(prefix) <= Len(key) /\ SubSeq(key, 1, Len(prefix)) = prefix

\* a defaultdict(list) read: a missing key reads as the empty list
DictGet(d, k) == IF k \in DOMAIN d THEN d[k] ELSE <<>>

DictPut(d, k, v) == [x \in DOMAIN d \cup {k} |-> IF x = k THEN v ELSE d[x]]

DictDel(d, ks) == [x \in DOMAIN d \ ks |-> d[x]]

\* [ts for ts in lst if ts > cutoff]
Newer(lst, cutoff) == SelectSeq(lst, LAMBDA ts : ts > cutoff)

\* timedelta.seconds of a non-negative difference
TdSeconds(d) == d % 86400

\* lst extended by n copies of t
RECURSIVE AppendN(_, _, _)
AppendN(lst, t, n) == IF n = 0 THEN lst ELSE AppendN(Append(lst, t), t, n - 1)

\* _check_blacklist_trigger: record the violation; at the threshold the
\* user is blacklisted.  Returns the two maps.
CheckBlacklistTrigger(rc, bl, user_id, t) ==
    LET vkey == RLKey(user_id, "violations")
        vlist == Append(Newer(DictGet(rc, vkey), t - ViolationWindow), t)
    IN  [rc |-> DictPut(rc, vkey, vlist),
         bl |-> IF Len(vlist) >= ViolationThreshold
                THEN DictPut(bl, user_id, t + BlacklistSeconds)
                ELSE bl]

\* check_rate_limit, step 2: the key's list is replaced by its entries
\* newer than the cutoff
EvictWindow(rc, key, cutoff) == DictPut(rc, key, Newer(DictGet(rc, key), cutoff))

\* check_rate_limit, steps 3 to 5, on the count read at step 3: the outcome
\* and the maps it leaves.  A denial over an empty list indexes it: the call
\* raises and records no violation.
QuotaDecide(rc, bl, user_id, operation, cost, t, current_count) ==
    LET lim == Limits(operation)
        key == RLKey(user_id, operation)
        lst == DictGet(rc, key)
    IN  IF current_count + cost > lim[1]
        THEN IF lst = <<>>
             THEN [kind |-> "error", allowed |-> FALSE, retry |-> 0, rc |-> rc, bl |-> bl]
             ELSE LET trig == CheckBlacklistTrigger(rc, bl, user_id, t)
                  IN  [kind |-> "limited", allowed |-> FALSE,
                       retry |-> lim[2] - TdSeconds(t - lst[1]),
                       rc |-> trig.rc, bl |-> trig.bl]
        ELSE [kind |-> "ok", allowed |-> TRUE, retry |-> 0,
              rc |-> DictPut(rc, key, AppendN(lst, t, cost)), bl |-> bl]

\* check_rate_limit from step 2 on (the user is not blocked), run without
\* interruption
CheckQuotaOffByOne(rc, bl, user_id, operation, cost, t) ==
    LET key == RLKey(user_id, operation)
        rc1 == EvictWindow(rc, key, t - Limits(operation)[2])
    IN  QuotaDecide(rc1, bl, user_id, operation, cost, t, Len(rc1[key]) - 1)

CheckQuota(rc, bl, user_id, operation, cost, t) ==
    LET key == RLKey(user_id, operation)
        rc1 == EvictWindow(rc, key, t - Limits(operation)[2])
    IN  QuotaDecide(rc1, bl, user_id, operation, cost, t, Len(rc1[key]))

\* check_rate_limit, step 1: a blacklisted user is denied until
\* blocked_until; an expired entry is removed
IsBlockedNever(bl, user_id, t) == FALSE

IsBlockedForever(bl, user_id, t) == user_id \in DOMAIN bl

IsBlocked(bl, user_id, t) == user_id \in DOMAIN bl /\ t < bl[user_id]

\* check_rate_limit(user_id, operation, cost) as one call
CheckRateLimit(rc, bl, user_id, operation, cost, t) ==
    IF IsBlocked(bl, user_id, t)
    THEN [kind |-> "blocked", allowed |-> FALSE,
          retry |-> TdSeconds(bl[user_id] - t), rc |-> rc, bl |-> bl]
    ELSE CheckQuota(rc, DictDel(bl, {user_id}), user_id, operation, cost, t)

\* reset_user_limits: every key that starts with f"{user_id}:" goes
ResetUserLimits(rc, user_id) ==
    DictDel(rc, {k \in DOMAIN rc : StartsWith(k, user_id \o <<":">>)})

\* ghost: the requests admitted on each key since the key was last absent
GhostAdmit(adm, rc2, key, t, n) ==
    LET kept == [k \in DOMAIN adm \cap DOMAIN rc2 |-> adm[k]]
    IN  IF n = 0 THEN kept ELSE DictPut(kept, key, AppendN(DictGet(kept, key), t, n))

\* the fifth of five quota denials of a user that lie within one violation
\* window, in a log of denial instants: the instants at which that happened
FifthDenials(log) ==
    {log[i] : i \in {j \in DOMAIN log :
                       /\ j >= ViolationThreshold
                       /\ log[j] - log[j - ViolationThreshold + 1] < ViolationWindow}}

NoCheck == [called |-> FALSE, user_id |-> <<>>, operation |-> "", cost |-> 0,
            kind |-> "", allowed |-> FALSE, retry |-> 0, at |-> 0, prior |-> 0,
            fresh_since |-> 0, blocked |-> FALSE, fifth_all |-> {}, fifth_since |-> {}]

\* what a call returned, with what the ghosts held when it returned
CallRecord(r, user_id, operation, cost, t) ==
    LET key == RLKey(user_id, operation)
        lg  == denials[user_id]
    IN  [called |-> TRUE, user_id |-> user_id, operation |-> operation,
         cost |-> cost, kind |-> r.kind, allowed |-> r.allowed,
         retry |-> r.retry, at |-> t,
         prior |-> Len(Newer(DictGet(admitted, key), t - Limits(operation)[2])),
         fresh_since |-> Len(DictGet(admitted, key)),
         blocked |-> r.kind = "blocked",
         fifth_all |-> FifthDenials(lg.all),
         fifth_since |-> FifthDenials(lg.since)]

\* the ghost log of quota denials after a call
DenialsAfter(r, user_id, t) ==
    IF r.kind = "limited"
    THEN [denials EXCEPT ![user_id] =
             [all   |-> Append(denials[user_id].all, t),
              since |-> Append(denials[user_id].since, t)]]
    ELSE denials

\* one call of check_rate_limit on the event loop; rlOut holds the call the
\* last step made (NoCheck when the last step was not a call)
Check(user_id, operation, cost) ==
    LET r   == CheckRateLimit(request_counts, blacklist, user_id, operation, cost, now)
        key == RLKey(user_id, operation)
    IN  /\ calls < MaxCalls
        /\ calls' = calls + 1
        /\ request_counts' = r.rc
        /\ blacklist' = r.bl
        /\ admitted' = GhostAdmit(admitted, r.rc, key, now, IF r.allowed THEN cost ELSE 0)
        /\ denials' = DenialsAfter(r, user_id, now)
        /\ rlOut' = CallRecord(r, user_id, operation, cost, now)
        /\ UNCHANGED <<resets, threads>>

\* POST /api/rate-limit/reset
Reset(user_id) ==
    LET rc2 == ResetUserLimits(request_counts, user_id)
    IN  /\ resets < MaxResets
        /\ resets' = resets + 1
        /\ request_counts' = rc2
        /\ admitted' = GhostAdmit(admitted, rc2, <<>>, now, 0)
        /\ denials' = [u \in DOMAIN denials |->
                         IF RLKey(u, "violations") \in DOMAIN request_counts
                            /\ RLKey(u, "violations") \notin DOMAIN rc2
                         THEN [denials[u] EXCEPT !.since = <<>>]
                         ELSE denials[u]]
        /\ rlOut' = NoCheck
        /\ UNCHANGED <<blacklist, calls, threads>>

AdvanceRLClock ==
    /\ \E t \in RLGrid : t > now /\ now' = t
    /\ rlOut' = NoCheck
    /\ UNCHANGED <<request_counts, blacklist, admitted, denials, calls, resets, threads>>

\* ------------------------------------------------------------------------
\* check_rate_limit called from several threads.  The class holds no lock:
\* a thread may be preempted between the statements of the method.
\* ------------------------------------------------------------------------
RLThreads == {1, 2}

\* bound of the threaded model: the calls the threads make in all
MaxThreadCalls == 3

IdleThread == [pc |-> "idle", user_id |-> <<>>, operation |-> "", cost |-> 0,
               t |-> 0, current_count |-> 0]

\* now = datetime.now() and step 1, the blacklist check: a blocked user is
\* answered at once, an expired entry is removed
ThreadBegin(th, user_id, operation, cost) ==
    LET blockedNow == IsBlocked(blacklist, user_id, now)
        r == CheckRateLimit(request_counts, blacklist, user_id, operation, cost, now)
    IN  /\ threads[th].pc = "idle"
        /\ calls < MaxThreadCalls
        /\ calls' = calls + 1
        /\ IF blockedNow
           THEN /\ rlOut' = CallRecord(r, user_id, operation, cost, now)
                /\ UNCHANGED <<threads, blacklist>>
           ELSE /\ threads' = [threads EXCEPT ![th] =
                      [pc |-> "evict", user_id |-> user_id, operation |-> operation,
                       cost |-> cost, t |-> now, current_count |-> 0]]
                /\ blacklist' = DictDel(blacklist, {user_id})
                /\ rlOut' = NoCheck
        /\ UNCHANGED <<request_counts, admitted, denials, resets>>

\* step 2: self.request_counts[key] = [ts for ts in ... if ts > cutoff_time]
ThreadEvict(th) ==
    LET me  == threads[th]
        key == RLKey(me.user_id, me.operation)
    IN  /\ me.pc = "evict"
        /\ request_counts' = EvictWindow(request_counts, key,
                                         me.t - Limits(me.operation)[2])
        /\ threads' = [threads EXCEPT ![th].pc = "count"]
        /\ rlOut' = NoCheck
        /\ UNCHANGED <<blacklist, admitted, denials, calls, resets>>

\* step 3: current_count = len(self.request_counts[key])
ThreadCount(th) ==
    LET me  == threads[th]
        key == RLKey(me.user_id, me.operation)
    IN  /\ me.pc = "count"
        /\ threads' = [threads EXCEPT ![th].pc = "decide",
                                      ![th].current_count =
                                          Len(DictGet(request_counts, key))]
        /\ rlOut' = NoCheck
        /\ UNCHANGED <<request_counts, blacklist, admitted, denials, calls, resets>>

\* steps 4 and 5: deny and record the violation, or append and allow
ThreadDecide(th) ==
    LET me  == threads[th]
        key == RLKey(me.user_id, me.operation)
        r   == QuotaDecide(request_counts, blacklist, me.user_id, me.operation,
                           me.cost, me.t, me.current_count)
    IN  /\ me.pc = "decide"
        /\ request_counts' = r.rc
        /\ blacklist' = r.bl
        /\ admitted' = GhostAdmit(admitted, r.rc, key, me.t,
                                  IF r.allowed THEN me.cost ELSE 0)
        /\ denials' = DenialsAfter(r, me.user_id, me.t)
        /\ rlOut' = CallRecord(r, me.user_id, me.operation, me.cost, me.t)
        /\ threads' = [threads EXCEPT ![th] = IdleThread]
        /\ UNCHANGED <<calls, resets>>

\* ========================================================================
\* 4. Connection pool: SQLiteConnectionPool and get_db_connection
\*    (database.py)
\* ========================================================================

\* bounds of the pool model: the pool's size (the class's pool_size
\* parameter, 10 in get_connection_pool) and the writes the bodies make
pool_size == 2
MaxWrites == 2

\* self.pool.get(timeout = 5.0)
GetTimeoutSeconds == 5

\* one more thread than there are connections
PoolThreads == 1..(pool_size + 1)

\* the connections __init__ pre-creates and puts into the queue
PooledConns == 1..pool_size

\* how a body inside `with get_db_connection()` may end
BodyOutcomes == {"ok", "Exception", "BaseException"}

\* poolOut: what the last step's get_connection or scope exit did
NoPoolEvent == [kind |-> "none", th |-> 0, conn |-> NULL, waited |-> 0,
                idle_conns |-> 0, body |-> "", wrote |-> {}, commit |-> FALSE,
                rollback |-> FALSE, raised |-> FALSE, returned |-> FALSE]

PoolIdle == [pc |-> "idle", conn |-> NULL, waited |-> 0]

\* SQLiteConnectionPool.get_connection after `waited` seconds in
\* queue.get: a queued connection is taken, else the wait goes on until the
\* timeout, which raises TimeoutError
GetConnectionOverflow(q, waited_s) ==
    IF q # <<>> THEN [kind |-> "conn", conn |-> Head(q), pool |-> Tail(q)]
    ELSE [kind |-> "conn", conn |-> pool_size + 1, pool |-> q]

GetConnection(q, waited_s) ==
    IF q # <<>> THEN [kind |-> "conn", conn |-> Head(q), pool |-> Tail(q)]
    ELSE IF waited_s >= GetTimeoutSeconds
         THEN [kind |-> "TimeoutError", conn |-> NULL, pool |-> q]
         ELSE [kind |-> "wait", conn |-> NULL, pool |-> q]

\* SQLiteConnectionPool.return_connection: conn.rollback(), then
\* put(block = False); a full queue closes the connection instead.
\* Returns the queue and the connection's uncommitted writes.
ReturnConnectionKeepsTxn(q, conn, txn) ==
    [pool |-> IF Len(q) >= pool_size THEN q ELSE Append(q, conn),
     txn |-> txn,
     closed |-> Len(q) >= pool_size]

ReturnConnection(q, conn, txn) ==
    [pool |-> IF Len(q) >= pool_size THEN q ELSE Append(q, conn),
     txn |-> {},
     closed |-> Len(q) >= pool_size]

\* get_db_connection after the yield: commit when the body returned;
\* `except Exception` rolls back and re-raises; any other exception passes
\* the except clause.  What the connection and the database hold before
\* the finally clause runs.
ScopeExit(body, txn, db) ==
    IF body = "ok"
    THEN [commit |-> TRUE, rollback |-> FALSE, raised |-> FALSE,
          txn |-> {}, db |-> db \cup txn]
    ELSE IF body = "Exception"
         THEN [commit |-> FALSE, rollback |-> TRUE, raised |-> TRUE,
               txn |-> {}, db |-> db]
         ELSE [commit |-> FALSE, rollback |-> FALSE, raised |-> TRUE,
               txn |-> txn, db |-> db]

\* pool.get_connection(): queue.get takes a queued connection at once, and
\* waits when the queue is empty
PoolGetStart(th) ==
    LET g == GetConnection(pool, 0)
    IN  /\ pthreads[th].pc = "idle"
        /\ g.kind # "TimeoutError"
        /\ pool' = g.pool
        /\ pthreads' = [pthreads EXCEPT ![th] =
               IF g.kind = "conn"
               THEN [pc |-> "body", conn |-> g.conn, waited |-> 0]
               ELSE [pc |-> "get", conn |-> NULL, waited |-> 0]]
        /\ poolOut' = IF g.kind = "conn"
                      THEN [NoPoolEvent EXCEPT !.kind = "conn", !.th = th,
                                               !.conn = g.conn,
                                               !.idle_conns = Len(pool)]
                      ELSE NoPoolEvent
        /\ UNCHANGED <<conn_txn, db_rows, nextWrite, scopes>>

\* the waiting queue.get returns a connection or raises; the TimeoutError
\* leaves get_db_connection before its try block
PoolGetFinish(th) ==
    LET me == pthreads[th]
        g  == GetConnection(pool, me.waited)
    IN  /\ me.pc = "get"
        /\ g.kind # "wait"
        /\ pool' = g.pool
        /\ pthreads' = [pthreads EXCEPT ![th] =
               IF g.kind = "conn"
               THEN [pc |-> "body", conn |-> g.conn, waited |-> 0]
               ELSE PoolIdle]
        /\ poolOut' = [NoPoolEvent EXCEPT !.kind = g.kind, !.th = th,
                                          !.conn = g.conn, !.waited = me.waited,
                                          !.idle_conns = Len(pool)]
        /\ UNCHANGED <<conn_txn, db_rows, nextWrite, scopes>>

\* one second passes for every thread inside queue.get; a thread whose
\* get can finish is scheduled before its timeout passes
PoolTick ==
    /\ \E th \in PoolThreads : pthreads[th].pc = "get"
    /\ \A th \in PoolThreads :
           pthreads[th].pc = "get" => pthreads[th].waited < GetTimeoutSeconds
    /\ pthreads' = [th \in PoolThreads |->
                      IF pthreads[th].pc = "get"
                      THEN [pthreads[th] EXCEPT !.waited = @ + 1]
                      ELSE pthreads[th]]
    /\ poolOut' = NoPoolEvent
    /\ UNCHANGED <<pool, conn_txn, db_rows, nextWrite, scopes>>

\* the body executes a writing statement on its connection: the statement
\* joins the connection's open transaction
BodyWrite(th) ==
    LET me == pthreads[th]
    IN  /\ me.pc = "body"
        /\ nextWrite <= MaxWrites
        /\ conn_txn' = [conn_txn EXCEPT ![me.conn] = @ \cup {nextWrite}]
        /\ nextWrite' = nextWrite + 1
        /\ poolOut' = NoPoolEvent
        /\ UNCHANGED <<pool, pthreads, db_rows, scopes>>

\* the body ends and get_db_connection runs to its end: commit or
\* rollback, then the finally clause returns the connection
BodyEnd(th, body) ==
    LET me  == pthreads[th]
        ex  == ScopeExit(body, conn_txn[me.conn], db_rows)
        ret == ReturnConnection(pool, me.conn, ex.txn)
    IN  /\ me.pc = "body"
        /\ db_rows' = ex.db
        /\ conn_txn' = [conn_txn EXCEPT ![me.conn] = ret.txn]
        /\ pool' = ret.pool
        /\ scopes' = [ok     |-> scopes.ok \cup
                                   (IF body = "ok" THEN conn_txn[me.conn] ELSE {}),
                      failed |-> scopes.failed \cup
                                   (IF body = "ok" THEN {} ELSE conn_txn[me.conn])]
        /\ pthreads' = [pthreads EXCEPT ![th] = PoolIdle]
        /\ poolOut' = [NoPoolEvent EXCEPT
                          !.kind = "exit", !.th = th, !.conn = me.conn,
                          !.idle_conns = Len(pool), !.body = body,
                          !.wrote = conn_txn[me.conn],
                          !.commit = ex.commit,
                          !.rollback = ~ex.commit /\ ret.txn = {},
                          !.raised = ex.raised,
                          !.returned = me.conn \in Range(ret.pool) \/ ret.closed]
        /\ UNCHANGED nextWrite

\* ========================================================================
\* 5. Verification codes: ConfigManager (config_manager.py)
\* ========================================================================

\* ConfigManager(verification_ttl = 360)
verification_ttl == 360

Emails == {"a@x", "b@x"}
Codes == {"111111", "222222"}
VThreads == {1, 2}

\* the instants the verification model's clock visits
VGrid == {0, verification_ttl, verification_ttl + 1}

VIdle == [pc |-> "idle", email |-> "", code |-> "", result |-> FALSE,
          valid_at_call |-> FALSE, valid_at_body |-> FALSE]

NoVerify == [called |-> FALSE, th |-> 0, email |-> "", code |-> "",
             result |-> FALSE, valid_at_call |-> FALSE, valid_at_body |-> FALSE,
             stored_after |-> FALSE]

\* now - data["timestamp"] > self._verification_ttl
CodeExpired(data, t) == t - data.timestamp > verification_ttl

\* _cleanup_expired_codes_unsafe
CleanupExpiredCodes(vc, t) ==
    DictDel(vc, {e \in DOMAIN vc : CodeExpired(vc[e], t)})

\* the body of verify_code, run under _verification_lock: the value
\* returned and the dict it leaves
VerifyCodeKeepsCode(vc, email, code, t) ==
    IF email \notin DOMAIN vc THEN [result |-> FALSE, codes |-> vc]
    ELSE IF CodeExpired(vc[email], t)
         THEN [result |-> FALSE, codes |-> DictDel(vc, {email})]
         ELSE [result |-> vc[email].code = code, codes |-> vc]

VerifyCode(vc, email, code, t) ==
    IF email \notin DOMAIN vc THEN [result |-> FALSE, codes |-> vc]
    ELSE IF CodeExpired(vc[email], t)
         THEN [result |-> FALSE, codes |-> DictDel(vc, {email})]
         ELSE IF vc[email].code = code
              THEN [result |-> TRUE, codes |-> DictDel(vc, {email})]
              ELSE [result |-> FALSE, codes |-> vc]

\* a stored, unexpired code of the email equals the code presented
CodeValid(vc, email, code, t) ==
    /\ email \in DOMAIN vc
    /\ vc[email].code = code
    /\ ~CodeExpired(vc[email], t)

\* set_verification_code(email, code), under the lock from start to end
SetVerificationCode(email, code) ==
    /\ verification_lock = 0
    /\ verification_codes' =
           DictPut(CleanupExpiredCodes(verification_codes, now), email,
                   [code |-> code, timestamp |-> now])
    /\ verified' = [verified EXCEPT ![email] = 0]
    /\ vOut' = NoVerify
    /\ UNCHANGED <<verification_lock, vthreads>>

\* a thread calls verify_code(email, code) and reaches the `with`
VerifyCall(th, email, code) ==
    /\ vthreads[th].pc = "idle"
    /\ vthreads' = [vthreads EXCEPT ![th] =
           [pc |-> "acquire", email |-> email, code |-> code, result |-> FALSE,
            valid_at_call |-> CodeValid(verification_codes, email, code, now),
            valid_at_body |-> FALSE]]
    /\ vOut' = NoVerify
    /\ UNCHANGED <<verification_codes, verification_lock, verified>>

\* with self._verification_lock: entered once the lock is free
VerifyAcquire(th) ==
    /\ vthreads[th].pc = "acquire"
    /\ verification_lock = 0
    /\ verification_lock' = th
    /\ vthreads' = [vthreads EXCEPT ![th].pc = "locked"]
    /\ vOut' = NoVerify
    /\ UNCHANGED <<verification_codes, verified>>

\* the body of verify_code
VerifyBody(th) ==
    LET me == vthreads[th]
        r  == VerifyCode(verification_codes, me.email, me.code, now)
    IN  /\ me.pc = "locked"
        /\ verification_lock = th
        /\ verification_codes' = r.codes
        /\ verified' = [verified EXCEPT ![me.email] = @ + (IF r.result THEN 1 ELSE 0)]
        /\ vthreads' = [vthreads EXCEPT
               ![th].pc = "release", ![th].result = r.result,
               ![th].valid_at_body =
                   CodeValid(verification_codes, me.email, me.code, now)]
        /\ vOut' = NoVerify
        /\ UNCHANGED verification_lock

\* the `with` block is left and verify_code returns
VerifyReturn(th) ==
    LET me == vthreads[th]
    IN  /\ me.pc = "release"
        /\ verification_lock' = 0
        /\ vthreads' = [vthreads EXCEPT ![th] = VIdle]
        /\ vOut' = [called |-> TRUE, th |-> th, email |-> me.email, code |-> me.code,
                    result |-> me.result, valid_at_call |-> me.valid_at_call,
                    valid_at_body |-> me.valid_at_body,
                    stored_after |-> me.email \in DOMAIN verification_codes]
        /\ UNCHANGED <<verification_codes, verified>>

AdvanceVClock ==
    /\ \E t \in VGrid : t > now /\ now' = t
    /\ vOut' = NoVerify
    /\ UNCHANGED <<verification_codes, verification_lock, vthreads, verified>>

\* ========================================================================
\* ConfigManager: the three locks and the operations that take them
\* (core/config_manager.py)
\* ========================================================================

CMThreads == 1..3

CMLocks == {"configs", "sessions", "verification"}

\* the order in which get_stats and clear_all name the locks
LockRank(l) ==
    CASE l = "configs" -> 1
      [] l = "sessions" -> 2
      [] l = "verification" -> 3

ConfigOps == {"set_config", "get_config", "has_config", "delete_config",
              "get_all_usernames"}

SessionOps == {"set_session", "get_session", "ensure_session",
               "update_session", "delete_session"}

VerificationOps == {"set_verification_code", "get_verification_code",
                    "verify_code", "cleanup_expired_codes"}

CMOps == ConfigOps \cup SessionOps \cup VerificationOps \cup {"get_stats", "clear_all"}

\* clear_all taking the locks in the opposite order to get_stats
LocksOfClearReversed(op) ==
    CASE op \in ConfigOps -> <<"configs">>
      [] op \in SessionOps -> <<"sessions">>
      [] op \in VerificationOps -> <<"verification">>
      [] op = "get_stats" -> <<"configs", "sessions", "verification">>
      [] op = "clear_all" -> <<"verification", "sessions", "configs">>

\* the locks an operation's `with` statement acquires, left to right
LocksOf(op) ==
    CASE op \in ConfigOps -> <<"configs">>
      [] op \in SessionOps -> <<"sessions">>
      [] op \in VerificationOps -> <<"verification">>
      [] op = "get_stats" -> <<"configs", "sessions", "verification">>
      [] op = "clear_all" -> <<"configs", "sessions", "verification">>

CMIdle == [pc |-> "idle", op |-> "", held |-> 0]

\* the lock a thread inside a `with` header asks for next
WantedLock(th) == LocksOf(cm_threads[th].op)[cm_threads[th].held + 1]

HeldLocks(th) == {l \in CMLocks : cm_locks[l] = th}

\* a thread calls an operation and reaches its `with` statement
CMCall(th, op) ==
    /\ cm_threads[th].pc = "idle"
    /\ cm_threads' = [cm_threads EXCEPT ![th] = [pc |-> "acquire", op |-> op, held |-> 0]]
    /\ UNCHANGED cm_locks

\* threading.Lock.acquire(): blocks while the lock has a holder (the lock is
\* not reentrant, so the holder itself would block too)
CMAcquire(th) ==
    LET me == cm_threads[th]
        l == WantedLock(th)
    IN  /\ me.pc = "acquire"
        /\ cm_locks[l] = 0
        /\ cm_locks' = [cm_locks EXCEPT ![l] = th]
        /\ cm_threads' = [cm_threads EXCEPT ![th] =
               [me EXCEPT !.held = me.held + 1,
                          !.pc = IF me.held + 1 = Len(LocksOf(me.op))
                                 THEN "body" ELSE "acquire"]]

\* the body of the `with` block: it calls no locking method of the manager
CMBody(th) ==
    /\ cm_threads[th].pc = "body"
    /\ cm_threads' = [cm_threads EXCEPT ![th].pc = "release"]
    /\ UNCHANGED cm_locks

\* leaving the `with` block releases the locks right to left
CMRelease(th) ==
    LET me == cm_threads[th]
        l == LocksOf(me.op)[me.held]
    IN  /\ me.pc = "release"
        /\ cm_locks' = [cm_locks EXCEPT ![l] = 0]
        /\ cm_threads' = [cm_threads EXCEPT ![th] =
               IF me.held = 1 THEN CMIdle ELSE [me EXCEPT !.held = me.held - 1]]

\* ========================================================================
\* Mutating conversation functions step by step (core/database.py): the SQL
\* statement runs inside `with get_db_connection()`, the cache.delete calls
\* follow inside the same block, and the commit happens when the block is
\* left.  Readers on other connections (threads of the server, or other
\* processes sharing the Redis cache) see the committed table only.
\* ========================================================================

\* the instants the clock visits in this model
RaceGrid == {0, 100}

WriterOps == {"create_conversation", "delete_conversation", "update_conversation_title"}

WriterIdle == [pc |-> "idle", op |-> "", user_id |-> NULL, conversation_id |-> NULL,
               success |-> FALSE, table |-> {}]

\* SELECT c.*, COUNT(m.id) ... WHERE c.user_id = ? GROUP BY c.id
SelectUserConversations(table, msgs, user_id) ==
    {[id |-> r.id, user_id |-> r.user_id, updated_at |-> r.updated_at,
      message_count |-> Cardinality({i \in DOMAIN msgs : msgs[i].conversation_id = r.id})] :
        r \in {x \in table : x.user_id = user_id}}

\* get_user_conversations behind @cached(ttl=300, key_prefix="conversations"):
\* the list returned and the cache it leaves (an empty list is cached too)
GetUserConversations(table, msgs, mc, user_id, t) ==
    LET key == CacheKey("conversations", <<user_id>>)
        hit == CacheGetValue(mc, key, t)
        mc1 == CacheAfterGet(mc, key, t)
        rows == SelectUserConversations(table, msgs, user_id)
    IN  IF hit # {}
        THEN [result |-> CHOOSE v \in hit : TRUE, cache |-> mc1]
        ELSE [result |-> rows, cache |-> CacheSet(mc1, key, rows, ConversationTtl, t)]

\* the table as the writer's open transaction sees it after its statement
WriterStatement(table, op, conversation_id, user_id, new_id, t) ==
    LET hit == SelectConversation(table, conversation_id, user_id)
    IN  CASE op = "create_conversation" ->
                 [table |-> table \cup {[id |-> new_id, user_id |-> user_id, updated_at |-> t]},
                  success |-> TRUE]
          [] op = "delete_conversation" ->
                 [table |-> table \ hit, success |-> hit # {}]
          [] op = "update_conversation_title" ->
                 [table |-> (table \ hit) \cup {[r EXCEPT !.updated_at = t] : r \in hit},
                  success |-> hit # {}]

\* cursor.execute(...) inside the with block: nothing is committed yet
WriterExecute(op, conversation_id, user_id) ==
    LET st == WriterStatement(conversations, op, conversation_id, user_id, nextConvId, now)
    IN  /\ cwriter.pc = "idle"
        /\ op = "create_conversation" => (nextConvId <= MaxConvs /\ conversation_id = nextConvId)
        /\ cwriter' = [pc |-> "executed", op |-> op, user_id |-> user_id,
                       conversation_id |-> conversation_id,
                       success |-> st.success, table |-> st.table]
        /\ nextConvId' = IF op = "create_conversation" THEN nextConvId + 1 ELSE nextConvId
        /\ UNCHANGED <<conversations, messages, memory_cache, valOut>>

\* the cache.delete calls, still inside the with block
WriterInvalidate ==
    LET listKey == CacheKey("conversations", <<cwriter.user_id>>)
        rowKey == CacheKey("conversation", <<cwriter.conversation_id, cwriter.user_id>>)
    IN  /\ cwriter.pc = "executed"
        /\ memory_cache' =
               IF cwriter.op = "create_conversation" THEN CacheDelete(memory_cache, listKey)
               ELSE IF cwriter.success
                    THEN CacheDelete(CacheDelete(memory_cache, listKey), rowKey)
                    ELSE memory_cache
        /\ cwriter' = [cwriter EXCEPT !.pc = "invalidated"]
        /\ UNCHANGED <<conversations, nextConvId, messages, valOut>>

\* the with block is left: get_db_connection commits
WriterCommit ==
    /\ cwriter.pc = "invalidated"
    /\ conversations' = cwriter.table
    /\ cwriter' = WriterIdle
    /\ UNCHANGED <<nextConvId, messages, memory_cache, valOut>>

\* a reader calls get_conversation_by_id on its own connection
ReadConversation(conversation_id, user_id) ==
    /\ memory_cache' = GetConversationById(conversations, memory_cache,
                                           conversation_id, user_id, now).cache
    /\ UNCHANGED <<conversations, nextConvId, messages, valOut, cwriter>>

\* a reader calls get_user_conversations on its own connection
ReadUserConversations(user_id) ==
    /\ memory_cache' = GetUserConversations(conversations, messages, memory_cache,
                                            user_id, now).cache
    /\ UNCHANGED <<conversations, nextConvId, messages, valOut, cwriter>>

\* the wall clock moves on to a later instant, within the TTL of what was
\* cached before
WriterClock ==
    /\ \E t \in RaceGrid : t > now /\ now' = t
    /\ UNCHANGED <<conversations, nextConvId, messages, memory_cache, valOut, cwriter>>

\* ========================================================================
\* Semantic cache (core/semantic_cache.py, memory backend) and the cached
\* RAG front (services/cached_rag.py).  CachedRAGSystem uses the module's
\* one SemanticCache instance unless it is given another.
\* ========================================================================

\* bound on the entries the model's cache grows to
MaxSemEntries == 2

\* SemanticCache(similarity_threshold = 0.95, max_cache_size = 1000)
similarity_threshold_pct == 95
max_cache_size == 1000

\* SemanticCache(ttl = 3600)
semantic_ttl == 3600

\* the instants the semantic-cache model's clock visits
SemGrid == {0, semantic_ttl, semantic_ttl + 1}

SemThreads == 1..2

\* the questions asked: two near-identical wordings and an unrelated one
SemQuestions == {"how", "how?", "why"}

\* the answers the LLM gives; "" is the empty answer
SemAnswers == {"", "x"}

\* embedder.embed_texts([query])[0]: deterministic per text
EmbedQuestion(q) ==
    CASE q = "how" -> <<20, 0>>
      [] q = "how?" -> <<20, 1>>
      [] OTHER -> <<0, 20>>

\* similarity >= similarity_threshold for
\* similarity = dot / (|c| * |q| + 1e-8): the dot product is positive and
\* its square exceeds threshold^2 * |c|^2 * |q|^2 (at equality the 1e-8
\* keeps the quotient below the threshold)
SimAtLeastThreshold(c, q) ==
    LET d == Dot(c, q)
    IN  /\ d > 0
        /\ 10000 * d * d >
               similarity_threshold_pct * similarity_threshold_pct * Dot(c, c) * Dot(q, q)

\* the loop of SemanticCache.get: the first entry whose similarity is
\* greater than 0.0 and than that of every earlier entry, and not less than
\* that of any later one (a set: empty when no similarity is positive)
BestMatch(entries, q) ==
    {i \in DOMAIN entries :
        /\ Dot(entries[i].embedding, q) > 0
        /\ \A j \in DOMAIN entries :
               /\ ~SimLess(entries[i].embedding, entries[j].embedding, q)
               /\ (j < i => SimLess(entries[j].embedding, entries[i].embedding, q))}

\* SemanticCache.get: the entry returned as a hit (a set, empty for None)
SemanticGet(entries, q) ==
    {entries[i] : i \in {j \in BestMatch(entries, q) :
                            SimAtLeastThreshold(entries[j].embedding, q)}}

\* SemanticCache._add_to_memory_cache: at capacity the oldest tenth goes
AddToMemoryCache(entries, entry) ==
    LET kept == IF Len(entries) >= max_cache_size
                THEN SubSeq(entries, Max(1, max_cache_size \div 10) + 1, Len(entries))
                ELSE entries
    IN  Append(kept, entry)

\* SemanticCache.set: the entry is built and added, whatever the answer is.
\* created_at is time.time().
\* `via` is a ghost: the caller that stored the entry.
SemanticSet(entries, question, answer, conversation_id, via) ==
    AddToMemoryCache(entries,
        [embedding |-> EmbedQuestion(question), question |-> question,
         answer |-> answer, conversation_id |-> conversation_id, via |-> via,
         created_at |-> now])

SemIdle == [pc |-> "idle", query |-> "", conversation_id |-> NULL]

NoAnswer == [called |-> FALSE, query |-> "", conversation_id |-> NULL,
             cache_hit |-> FALSE, answer |-> "", entry_conversation |-> NULL]

\* semantic_cache.set(...) called directly
SemSetCall(question, answer, conversation_id) ==
    /\ Len(sem_cache) < MaxSemEntries
    /\ sem_cache' = SemanticSet(sem_cache, question, answer, conversation_id, "set")
    /\ semOut' = NoAnswer
    /\ UNCHANGED sem_threads

\* CachedRAGSystem.answer, steps 1 and 2: embed the query and look it up;
\* a hit returns the cached answer, a miss goes on to retrieval and the LLM
AnswerBegin(th, query, conversation_id) ==
    LET hit == SemanticGet(sem_cache, EmbedQuestion(query))
    IN  /\ sem_threads[th].pc = "idle"
        /\ IF hit # {}
           THEN LET e == CHOOSE x \in hit : TRUE
                IN  /\ semOut' = [called |-> TRUE, query |-> query,
                                  conversation_id |-> conversation_id,
                                  cache_hit |-> TRUE, answer |-> e.answer,
                                  entry_conversation |-> e.conversation_id]
                    /\ UNCHANGED sem_threads
           ELSE /\ sem_threads' = [sem_threads EXCEPT ![th] =
                        [pc |-> "llm", query |-> query,
                         conversation_id |-> conversation_id]]
                /\ semOut' = NoAnswer
        /\ UNCHANGED sem_cache

\* CachedRAGSystem.answer, steps 3 and 4: the LLM has answered; a non-empty
\* answer is saved to the cache and the result returned
AnswerFinish(th, answer) ==
    LET me == sem_threads[th]
    IN  /\ me.pc = "llm"
        /\ answer # "" => Len(sem_cache) < MaxSemEntries
        /\ sem_cache' = IF answer # ""
                        THEN SemanticSet(sem_cache, me.query, answer,
                                         me.conversation_id, "answer")
                        ELSE sem_cache
        /\ sem_threads' = [sem_threads EXCEPT ![th] = SemIdle]
        /\ semOut' = [called |-> TRUE, query |-> me.query,
                      conversation_id |-> me.conversation_id,
                      cache_hit |-> FALSE, answer |-> answer,
                      entry_conversation |-> NULL]

\* ========================================================================
\* Request handlers: send_message and upload_document (core/main.py).  The
\* handlers are coroutines on one event loop: a handler runs without
\* interruption from one await to the next, and a client disconnect ends
\* it at an await.  The requests are those of one user, MainUser; a
\* conversation of another user comes from that user's own traffic.
\* ========================================================================

\* bounds of the handler model
MaxRequests == 3
MaxChatMessages == 4
MaxUploads == 1

ChatSlots == 1..2

\* the authenticated user: the token's username and the users row's id
MainUser == <<"al">>
MainUserId == 1

\* the instants this model's clock visits: 0, and an instant at which a
\* conversation last touched at 0 has expired
ChatGrid == {0, ExpirySeconds + GridStep}

ChatIdle == [pc |-> "idle", conversation_id |-> NULL, ai_response |-> "none"]

NoRequest == [kind |-> "none", status |-> 0, reason |-> "", conversation_id |-> NULL]

Outcome(kind, status, reason, conversation_id) ==
    [kind |-> kind, status |-> status, reason |-> reason,
     conversation_id |-> conversation_id]

\* add_message as a function of the two tables: the INSERT and the
\* updated_at bump of one transaction
AddMessageRows(msgs, table, conversation_id, role, content, t) ==
    [messages |-> Append(msgs, [id |-> Len(msgs) + 1,
                                conversation_id |-> conversation_id, role |-> role,
                                content |-> content]),
     conversations |-> {IF r.id = conversation_id
                        THEN [r EXCEPT !.updated_at = t] ELSE r : r \in table}]

\* how a call of the LLM provider ends
ProviderResults == {"answer", "error"}

\* _generate_via_http: the provider's answer, or, on any exception (and on
\* an HTML page or an unknown format), a string that starts with "Error"
GenerateViaHttp(http) ==
    IF http = "answer" THEN "answer" ELSE "error text"

\* generate_answer: the client's answer, or on its exception the result of
\* _generate_via_http; it never raises
GenerateAnswer(client, http) ==
    IF client = "answer" THEN "answer" ELSE GenerateViaHttp(http)

\* ai_response of send_message.  With a RAG system configured the answer
\* comes from generate_answer_with_search; an exception before it (search,
\* web search) leaves ai_response None.  Without an ai_response the direct
\* request runs under the retry policy, whose exception ends the handler.
\* "ok" is a provider answer, "error text" the string of
\* _generate_via_http, "failed" the exception.
AiResponse(rag_configured, retrieval_ok, client, http, direct) ==
    LET rag == IF rag_configured /\ retrieval_ok
               THEN GenerateAnswer(client, http) ELSE "none"
    IN  IF rag = "answer" THEN "ok"
        ELSE IF rag = "error text" THEN "error text"
        ELSE IF direct = "answer" THEN "ok" ELSE "failed"

\* every way the answer step of send_message can end
AiResponses ==
    {AiResponse(r, k, c, h, d) : r \in BOOLEAN, k \in BOOLEAN, c \in ProviderResults,
                                 h \in ProviderResults, d \in ProviderResults}

\* `if not ai_response` is false for both an answer and an error string
HasAnswer(outcome) == outcome \in {"ok", "error text"}

\* the text in ai_response
AnswerText(outcome) == IF outcome = "error text" THEN "error text" ELSE "answer"

\* the writes of the save step of send_message, in order; each is a
\* database function with a transaction of its own
SaveWrites(conversation_id, found) ==
    IF conversation_id # NULL
    THEN IF found THEN <<"add_user", "add_assistant">> ELSE <<>>
    ELSE <<"create_conversation", "add_user", "add_assistant">>

\* a pipeline that stores the question before it asks the LLM
TurnWritesQuestionFirst(outcome, conversation_id, found) ==
    IF HasAnswer(outcome) THEN SaveWrites(conversation_id, found)
    ELSE IF conversation_id # NULL /\ found THEN <<"add_user">> ELSE <<>>

\* the writes of one request, by the way its LLM call ended: an exception
\* of the call leaves the try block before the save step, and a cancelled
\* coroutine does not run on
TurnWrites(outcome, conversation_id, found) ==
    IF HasAnswer(outcome) THEN SaveWrites(conversation_id, found) ELSE <<>>

\* the stores after the first n writes of the save step have committed
RECURSIVE SaveApply(_, _, _, _, _)
SaveApply(st, writes, n, user_id, t) ==
    IF n = 0 THEN st
    ELSE LET w == Head(writes)
             st1 == CASE w = "create_conversation" ->
                            [st EXCEPT !.conversations = st.conversations \cup
                                           {[id |-> st.nextConvId, user_id |-> user_id,
                                             updated_at |-> t]},
                                       !.conversation_id = st.nextConvId,
                                       !.nextConvId = st.nextConvId + 1,
                                       !.cache = CacheDelete(st.cache,
                                                     CacheKey("conversations", <<user_id>>))]
                      [] OTHER ->
                            LET am == AddMessageRows(st.messages, st.conversations,
                                          st.conversation_id,
                                          IF w = "add_user" THEN "user" ELSE "assistant",
                                          IF w = "add_user" THEN "question" ELSE st.ai_response,
                                          t)
                            IN  [st EXCEPT !.messages = am.messages,
                                           !.conversations = am.conversations]
         IN  SaveApply(st1, Tail(writes), n - 1, user_id, t)

\* send_message from the end of the LLM call on: with ai_response in
\* hand the ownership re-read, then the writes; `done` of them commit
\* before one raises (done = all of them: none raises)
SaveTurn(outcome, conversation_id, done) ==
    LET got == IF HasAnswer(outcome) /\ conversation_id # NULL
               THEN GetConversationById(conversations, memory_cache,
                                        conversation_id, MainUserId, now)
               ELSE [result |-> SelectConversation(conversations, conversation_id,
                                                   MainUserId),
                     cache |-> memory_cache, cache_hit |-> FALSE]
        writes == TurnWrites(outcome, conversation_id, got.result # {})
        st0 == [messages |-> messages, conversations |-> conversations,
                nextConvId |-> nextConvId, cache |-> got.cache,
                conversation_id |-> conversation_id,
                ai_response |-> AnswerText(outcome)]
        n == IF HasAnswer(outcome) THEN Min(done, Len(writes)) ELSE Len(writes)
    IN  [st |-> SaveApply(st0, writes, n, MainUserId, now),
         failed |-> n < Len(writes)]

\* the number of message rows that requests in flight may still write
ChatReserved == 2 * Cardinality({s \in ChatSlots : chat[s].pc \in {"llm", "title"}})

\* send_message up to its first await: rate limit, user lookup, validation
\* of the conversation named by the request, history and retrieval reads
ChatStart(s, conversation_id) ==
    LET rl == CheckRateLimit(request_counts, blacklist, MainUser, "chat", 1, now)
        got == GetConversationById(conversations, memory_cache,
                                   conversation_id, MainUserId, now)
        res == ValidateConversationAccess(got.result, MainUserId, TRUE, now)
    IN  /\ chat[s].pc = "idle"
        /\ handled < MaxRequests
        /\ Len(messages) + ChatReserved + 2 <= MaxChatMessages
        /\ conversation_id = NULL => nextConvId <= MaxConvs
        /\ handled' = handled + 1
        /\ request_counts' = rl.rc
        /\ blacklist' = rl.bl
        /\ IF ~rl.allowed
           THEN /\ reqOut' = Outcome("chat", 429, "rate limit", conversation_id)
                /\ UNCHANGED <<memory_cache, chat>>
           ELSE IF conversation_id # NULL /\ ~res.ok
           THEN /\ reqOut' = Outcome("chat", 400, res.error, conversation_id)
                /\ memory_cache' = got.cache
                /\ UNCHANGED chat
           ELSE /\ reqOut' = NoRequest
                /\ memory_cache' = IF conversation_id # NULL THEN got.cache ELSE memory_cache
                /\ chat' = [chat EXCEPT ![s] = [pc |-> "llm",
                                                conversation_id |-> conversation_id,
                                                ai_response |-> "none"]]
        /\ UNCHANGED <<conversations, nextConvId, messages, valOut>>

\* the LLM call ends.  "failed": every retry failed, the handler answers
\* 500.  "abandoned": the client went away during the await.  "ok":
\* ai_response is there; for a request that names a conversation the save
\* step follows without an await in between, a request without one awaits
\* the title first.
ChatLLM(s, outcome, done) ==
    LET me == chat[s]
        sv == SaveTurn(outcome, me.conversation_id, done)
    IN  /\ me.pc = "llm"
        /\ ~HasAnswer(outcome) => done = 0
        /\ IF HasAnswer(outcome) /\ me.conversation_id = NULL
           THEN /\ chat' = [chat EXCEPT ![s].pc = "title",
                                        ![s].ai_response = AnswerText(outcome)]
                /\ reqOut' = NoRequest
                /\ UNCHANGED <<conversations, nextConvId, messages, memory_cache>>
           ELSE /\ conversations' = sv.st.conversations
                /\ messages' = sv.st.messages
                /\ memory_cache' = sv.st.cache
                /\ UNCHANGED nextConvId
                /\ IF HasAnswer(outcome) /\ ~sv.failed
                   THEN /\ chat' = [chat EXCEPT ![s].pc = "followup",
                                                ![s].ai_response = AnswerText(outcome)]
                        /\ reqOut' = NoRequest
                   ELSE /\ chat' = [chat EXCEPT ![s] = ChatIdle]
                        /\ reqOut' =
                             CASE outcome = "failed" ->
                                    Outcome("chat", 500, "llm failed", me.conversation_id)
                               [] outcome = "abandoned" ->
                                    Outcome("chat", 0, "abandoned before the answer",
                                            me.conversation_id)
                               [] OTHER ->
                                    Outcome("chat", 500, "save failed", me.conversation_id)
        /\ UNCHANGED <<valOut, handled, request_counts, blacklist>>

\* generate_conversation_title returns (a failure falls back to the
\* truncated question) and the new conversation is saved, or the client
\* went away during the await
ChatTitle(s, outcome, done) ==
    LET me == chat[s]
        sv == SaveTurn(IF me.ai_response = "error text" THEN "error text" ELSE "ok",
                       NULL, done)
    IN  /\ me.pc = "title"
        /\ IF outcome # "ok"
           THEN /\ chat' = [chat EXCEPT ![s] = ChatIdle]
                /\ reqOut' = Outcome("chat", 0, "abandoned after the answer", NULL)
                /\ UNCHANGED <<conversations, nextConvId, messages, memory_cache>>
           ELSE /\ conversations' = sv.st.conversations
                /\ messages' = sv.st.messages
                /\ memory_cache' = sv.st.cache
                /\ nextConvId' = sv.st.nextConvId
                /\ IF sv.failed
                   THEN /\ chat' = [chat EXCEPT ![s] = ChatIdle]
                        /\ reqOut' = Outcome("chat", 500, "save failed", sv.st.conversation_id)
                   ELSE /\ chat' = [chat EXCEPT ![s].pc = "followup",
                                                ![s].conversation_id = sv.st.conversation_id]
                        /\ reqOut' = NoRequest
        /\ UNCHANGED <<valOut, handled, request_counts, blacklist>>

\* generate_follow_up_questions returns (a failure gives an empty list) and
\* the handler answers, or the client went away during the await
ChatFollowUp(s, outcome) ==
    LET me == chat[s]
    IN  /\ me.pc = "followup"
        /\ chat' = [chat EXCEPT ![s] = ChatIdle]
        /\ reqOut' = IF outcome = "ok"
                     THEN Outcome("chat", 200, "ok", me.conversation_id)
                     ELSE Outcome("chat", 0, "abandoned after the answer", me.conversation_id)
        /\ UNCHANGED <<conversations, nextConvId, messages, memory_cache, valOut,
                       handled, request_counts, blacklist>>

\* the checks that reject a request before its work starts
RejectReasons == {"rate limit", "not found", "access denied", "expired"}

\* upload_document with a temporary file that is written first
UploadDocumentResultTempFirst(allowed, conversation_id, res, is_pdf, outcome) ==
    LET rejected(status, reason) ==
            [status |-> status, reason |-> reason, temp_created |-> TRUE,
             temp_kept |-> TRUE, chunks_stored |-> FALSE, row_stored |-> FALSE,
             flag_set |-> FALSE]
    IN  IF ~allowed THEN rejected(429, "rate limit")
        ELSE IF conversation_id = NULL THEN rejected(400, "conversation_id is required")
        ELSE IF ~res.ok THEN rejected(400, res.error)
        ELSE IF ~is_pdf THEN rejected(400, "not a pdf")
        ELSE [status |-> IF outcome = "ok" THEN 200 ELSE 500, reason |-> outcome,
              temp_created |-> TRUE, temp_kept |-> outcome \in {"ok", "copy failed"},
              chunks_stored |-> outcome \in {"ok", "db failed"},
              row_stored |-> outcome = "ok", flag_set |-> outcome = "ok"]

\* upload_document as a function of its checks' verdicts and of the way
\* its work ends: the status it answers, and what it leaves behind.  The
\* checks raise before the try block; inside it the temporary file is
\* written, add_pdf stores the chunks, add_user_document stores the row and
\* update_session sets the flag; an exception there removes the file at
\* temp_path.  temp_path is assigned after shutil.copyfileobj: when the
\* copy into the created file fails ("copy failed") temp_path is still
\* None and the handler removes nothing.
UploadDocumentResult(allowed, conversation_id, res, is_pdf, outcome) ==
    LET rejected(status, reason) ==
            [status |-> status, reason |-> reason, temp_created |-> FALSE,
             temp_kept |-> FALSE, chunks_stored |-> FALSE, row_stored |-> FALSE,
             flag_set |-> FALSE]
    IN  IF ~allowed THEN rejected(429, "rate limit")
        ELSE IF conversation_id = NULL THEN rejected(400, "conversation_id is required")
        ELSE IF ~res.ok THEN rejected(400, res.error)
        ELSE IF ~is_pdf THEN rejected(400, "not a pdf")
        ELSE [status |-> IF outcome = "ok" THEN 200 ELSE 500, reason |-> outcome,
              temp_created |-> TRUE, temp_kept |-> outcome \in {"ok", "copy failed"},
              chunks_stored |-> outcome \in {"ok", "db failed"},
              row_stored |-> outcome = "ok", flag_set |-> outcome = "ok"]

\* the ways the try block of upload_document ends: it returns, the copy
\* into the temporary file raises, add_pdf returns False or raises,
\* add_user_document raises
UploadOutcomes == {"ok", "copy failed", "rag failed", "db failed"}

\* the file name and the one chunk of the model's upload
UploadFilename == "f"
UploadTexts == <<"a">>

\* add_pdf -> add_document_with_embeddings -> CustomVectorDB.add_document
\* as one committed transaction
StoreDocument(docs, table, doc_id, filename, texts, conversation_id) ==
    [documents |-> {d \in docs : d.filename # filename}
                       \cup {[id |-> doc_id, filename |-> filename]},
     chunks |-> table \o [i \in 1..Len(texts) |->
                            [id |-> Len(table) + i,
                             document_id |-> doc_id,
                             conversation_id |-> conversation_id,
                             chunk_text |-> texts[i],
                             chunk_index |-> i - 1,
                             embedding |-> Embed(texts[i])]]]

\* upload_document: the handler has no await, it runs as one step
UploadDocument(conversation_id, is_pdf, outcome) ==
    LET rl == CheckRateLimit(request_counts, blacklist, MainUser, "upload", 1, now)
        got == GetConversationById(conversations, memory_cache,
                                   conversation_id, MainUserId, now)
        res == ValidateConversationAccess(got.result, MainUserId, TRUE, now)
        r == UploadDocumentResult(rl.allowed, conversation_id, res, is_pdf, outcome)
        sd == StoreDocument(documents, chunks, nextDocId, UploadFilename,
                            UploadTexts, conversation_id)
    IN  /\ handled < MaxRequests
        /\ ~pending.open
        /\ r.temp_created => nextTemp <= MaxUploads
        /\ r.chunks_stored => Len(chunks) + Len(UploadTexts) <= MaxChunks
        /\ ~r.temp_created => outcome = "ok"
        /\ handled' = handled + 1
        /\ request_counts' = rl.rc
        /\ blacklist' = rl.bl
        /\ memory_cache' = IF rl.allowed /\ conversation_id # NULL
                           THEN got.cache ELSE memory_cache
        /\ nextTemp' = IF r.temp_created THEN nextTemp + 1 ELSE nextTemp
        /\ temp_files' = IF r.temp_kept THEN temp_files \cup {nextTemp} ELSE temp_files
        /\ documents' = IF r.chunks_stored THEN sd.documents ELSE documents
        /\ chunks' = IF r.chunks_stored THEN sd.chunks ELSE chunks
        /\ nextDocId' = IF r.chunks_stored THEN nextDocId + 1 ELSE nextDocId
        /\ user_documents' =
               IF r.row_stored
               THEN user_documents \cup {[id |-> Cardinality(user_documents) + 1,
                                          user_id |-> MainUserId,
                                          conversation_id |-> conversation_id]}
               ELSE user_documents
        /\ documents_loaded' = (documents_loaded \/ r.flag_set)
        /\ reqOut' = Outcome("upload", r.status, r.reason, conversation_id)
        /\ UNCHANGED <<conversations, nextConvId, messages, valOut, chat,
                       pending, searchOut>>

\* the limiter after n more requests of one operation at instant t
RECURSIVE ChargeRateLimit(_, _, _, _, _, _)
ChargeRateLimit(rc, bl, user_id, operation, n, t) ==
    IF n = 0 THEN [rc |-> rc, bl |-> bl, allowed |-> TRUE]
    ELSE LET rl == CheckRateLimit(rc, bl, user_id, operation, 1, t)
         IN  IF n = 1 THEN [rc |-> rl.rc, bl |-> rl.bl, allowed |-> rl.allowed]
             ELSE ChargeRateLimit(rl.rc, rl.bl, user_id, operation, n - 1, t)

\* a burst of requests, as many as the operation's limit, each of which
\* is refused after the rate limiter has counted it: uploads without a
\* conversation_id, chat messages that name no conversation of the store.
\* None of them has an await, the burst runs as a sequence of whole
\* handler calls.
RequestBurst(operation) ==
    LET n == Limits(operation)[1]
        rl == ChargeRateLimit(request_counts, blacklist, MainUser, operation, n, now)
    IN  /\ handled < MaxRequests
        /\ handled' = handled + 1
        /\ request_counts' = rl.rc
        /\ blacklist' = rl.bl
        /\ reqOut' = IF ~rl.allowed
                     THEN Outcome(operation, 429, "rate limit", NULL)
                     ELSE IF operation = "upload"
                     THEN Outcome(operation, 400, "conversation_id is required", NULL)
                     ELSE Outcome(operation, 400, "not found", MaxConvs + 1)
        /\ UNCHANGED <<conversations, nextConvId, messages, memory_cache, valOut, chat,
                       documents, chunks, nextDocId, pending, searchOut,
                       user_documents, temp_files, documents_loaded, nextTemp>>

\* a conversation of another user appears in the store
OtherUserConversation ==
    /\ \E u \in UserIds \ {MainUserId} : CreateConversation(u)
    /\ reqOut' = NoRequest
    /\ UNCHANGED <<request_counts, blacklist, chat, handled>>

\* delete_conversation_endpoint: user lookup, then delete_conversation
\* with the ownership condition in its WHERE clause; 404 when no row went
DeleteConversationEndpoint(conversation_id) ==
    /\ handled < MaxRequests
    /\ handled' = handled + 1
    /\ DeleteConversation(conversation_id, MainUserId)
    /\ reqOut' = IF SelectConversation(conversations, conversation_id, MainUserId) # {}
                 THEN Outcome("delete", 200, "ok", conversation_id)
                 ELSE Outcome("delete", 404, "not found", conversation_id)
    /\ UNCHANGED <<request_counts, blacklist, chat>>

\* has_user_documents(user_id, conversation_id): conversation_id NULL
\* asks for any document of the user
HasUserDocuments(table, user_id, conversation_id) ==
    \E d \in table :
        /\ d.user_id = user_id
        /\ conversation_id # NULL => d.conversation_id = conversation_id

\* get_document_status: has_user_documents(user_id) of the users row
GetDocumentStatus ==
    /\ reqOut' = Outcome("status", 200,
                         IF HasUserDocuments(user_documents, MainUserId, NULL)
                         THEN "documents_loaded" ELSE "no documents", NULL)
    /\ UNCHANGED <<conversations, nextConvId, messages, memory_cache, valOut,
                   request_counts, blacklist, chat, handled>>

\* clear_documents: closes the RAG system's connection, removes the
\* user's vector database file (removed tells whether os.remove got it
\* done, at once or on its second try; the handler goes on either way),
\* opens a new CustomRAGSystem on the same path and answers success.  It
\* has no await and runs as one step.
ClearDocuments(removed) ==
    /\ handled < MaxRequests
    /\ ~pending.open
    /\ handled' = handled + 1
    /\ documents' = IF removed THEN {} ELSE documents
    /\ chunks' = IF removed THEN <<>> ELSE chunks
    /\ nextDocId' = IF removed THEN 1 ELSE nextDocId
    /\ reqOut' = Outcome("clear", 200, "ok", NULL)
    /\ UNCHANGED <<conversations, nextConvId, messages, memory_cache, valOut,
                   request_counts, blacklist, chat, pending, searchOut,
                   user_documents, temp_files, documents_loaded, nextTemp>>

\* the wall clock moves on to a later instant of the grid
ChatClock ==
    /\ \E t \in ChatGrid : t > now /\ now' = t
    /\ reqOut' = NoRequest
    /\ UNCHANGED <<conversations, nextConvId, messages, memory_cache, valOut,
                   request_counts, blacklist, chat, handled>>

\* ========================================================================
\* Two-level index: TwoLevelVectorDB (services/two_level_indexing.py)
\* ========================================================================

\* doc_filter_threshold = 0.6 (in hundredths) and max_documents = 3, the
\* defaults of search_two_level
doc_filter_threshold_pct == 60
default_max_documents == 3

\* the summaries the model's ingests pass, and their embeddings
SummaryTexts == {"a", "z"}

EmbedSummary(text) == IF text = "a" THEN <<1, 0>> ELSE <<0, 1>>

\* the values of max_documents that the model's searches pass
MaxDocuments == {1, default_max_documents}

NoTwoLevelSearch == [called |-> FALSE, conversation_id |-> NULL, ids |-> <<>>]

\* similarity >= doc_filter_threshold for
\* similarity = dot / (|s| * |q| + 1e-8)
SummaryPasses(e, q) ==
    LET d == Dot(e, q)
    IN  /\ d > 0
        /\ 10000 * d * d >
               doc_filter_threshold_pct * doc_filter_threshold_pct * Dot(e, e) * Dot(q, q)

\* level 1, the SELECT: the summary rows joined with documents, those of
\* the conversation, or all of them when conversation_id is None
SummaryRows(docs, summaries, conversation_id) ==
    {i \in DOMAIN summaries :
        /\ \E d \in docs : d.id = summaries[i].document_id
        /\ conversation_id # NULL => SqlEq(summaries[i].conversation_id, conversation_id)}

\* level 1, the filter and the stable sort by similarity, descending: the
\* document_ids of the first max_documents rows that pass the threshold
SelectedDocs(docs, summaries, q, conversation_id, max_documents) ==
    LET rows == {i \in SummaryRows(docs, summaries, conversation_id) :
                    SummaryPasses(summaries[i].embedding, q)}
        before(i, j) == \/ SimLess(summaries[j].embedding, summaries[i].embedding, q)
                        \/ /\ SimEq(summaries[i].embedding, summaries[j].embedding, q)
                           /\ i < j
        kept == {i \in rows : Cardinality({j \in rows : before(j, i)}) < max_documents}
    IN  {summaries[i].document_id : i \in kept}

\* level 2, the SELECT: the chunks of the selected documents, of the
\* conversation when one is given
TwoLevelChunkRows(table, selected, conversation_id) ==
    SelectSeq2(table, {r \in Range(table) :
                          /\ r.document_id \in selected
                          /\ conversation_id # NULL =>
                                 SqlEq(r.conversation_id, conversation_id)})

\* search_two_level: the possible return values
SearchTwoLevel(docs, summaries, table, q, top_k, conversation_id, max_documents) ==
    LET selected == SelectedDocs(docs, summaries, q, conversation_id, max_documents)
        rows == TwoLevelChunkRows(table, selected, conversation_id)
    IN  IF selected = {} \/ rows = <<>> THEN {<<>>} ELSE TopKOrders(rows, q, top_k)

\* add_document_with_summary: one transaction; INSERT OR REPLACE drops a
\* document row with the same file_hash (foreign keys are off on this
\* connection: its summary and chunk rows stay), the new row takes a fresh
\* id; then the summary row and one chunk row per chunk
AddDocumentWithSummary(filename, texts, summary_text, conversation_id) ==
    /\ Len(tl_chunks) + Len(texts) <= MaxChunks
    /\ tl_documents' = {d \in tl_documents : d.filename # filename}
                           \cup {[id |-> tl_nextDocId, filename |-> filename]}
    /\ tl_summaries' = Append(tl_summaries,
                              [document_id |-> tl_nextDocId,
                               conversation_id |-> conversation_id,
                               embedding |-> EmbedSummary(summary_text)])
    /\ tl_chunks' = tl_chunks \o
           [i \in 1..Len(texts) |->
               [id |-> Len(tl_chunks) + i,
                document_id |-> tl_nextDocId,
                conversation_id |-> conversation_id,
                chunk_text |-> texts[i],
                chunk_index |-> i - 1,
                embedding |-> Embed(texts[i])]]
    /\ tl_nextDocId' = tl_nextDocId + 1
    /\ tlOut' = NoTwoLevelSearch

\* search_two_level on its own connection
TwoLevelSearch(q, top_k, conversation_id, max_documents) ==
    /\ \E res \in SearchTwoLevel(tl_documents, tl_summaries, tl_chunks, q, top_k,
                                 conversation_id, max_documents) :
           tlOut' = [called |-> TRUE, conversation_id |-> conversation_id,
                     ids |-> [i \in 1..Len(res) |-> res[i].id]]
    /\ UNCHANGED <<tl_documents, tl_summaries, tl_chunks, tl_nextDocId>>

InitTwoLevel ==
    /\ tl_documents = {}
    /\ tl_summaries = <<>>
    /\ tl_chunks = <<>>
    /\ tl_nextDocId = 1
    /\ tlOut = NoTwoLevelSearch

\* ========================================================================
\* Cleanup of expired conversations (session_isolation_enhanced.py)
\* ========================================================================

\* SessionValidator.cleanup_expired_conversations(user_id): the list comes
\* from get_user_conversations (behind its cache), every conversation of
\* the list that is_conversation_expired reports is handed to
\* delete_conversation, which drops the cache keys when a row went
CleanupExpiredConversations(table, msgs, mc, user_id, t) ==
    LET got == GetUserConversations(table, msgs, mc, user_id, t)
        expired == {conv.id : conv \in {x \in got.result : IsConversationExpired(x, t)}}
        deleted == {id \in expired : SelectConversation(table, id, user_id) # {}}
        keys == IF deleted = {} THEN {}
                ELSE {CacheKey("conversations", <<user_id>>)}
                         \cup {CacheKey("conversation", <<id, user_id>>) : id \in deleted}
    IN  [conversations |-> {r \in table : ~(r.id \in deleted /\ r.user_id = user_id)},
         cache |-> CacheRemove(got.cache, keys),
         expired |-> expired,
         deleted |-> deleted]

\* POST /api/chat/conversations/cleanup-expired
CleanupExpired(user_id) ==
    LET r == CleanupExpiredConversations(conversations, messages, memory_cache, user_id, now)
    IN  /\ conversations' = r.conversations
        /\ memory_cache' = r.cache
        /\ valOut' = NoValidate
        /\ UNCHANGED <<nextConvId, messages>>

\* GET /api/chat/conversations: the list of the user's conversations
ListConversations(user_id) ==
    /\ memory_cache' = GetUserConversations(conversations, messages, memory_cache,
                                            user_id, now).cache
    /\ valOut' = NoValidate
    /\ UNCHANGED <<conversations, nextConvId, messages>>

\* ========================================================================
\* Retry policy: retry_with_exponential_backoff (core/main.py)
\* ========================================================================

RetryCallers == 1..2

\* exponential_base = 2.0, the default every caller keeps
exponential_base == 2

\* (max_retries, initial_delay, max_delay) of the callers, delays in half
\* seconds: the chat, enhancement and optimization requests pass
\* (3, 2.0, 30.0), the title and follow-up requests (2, 1.0, 10.0)
RetryProfiles == {<<3, 4, 60>>, <<2, 2, 20>>}

\* how one invocation of func ends: it returns, it raises an error whose
\* text names a rate limit, 429, 503 or a timeout, or it raises another
Invocations == {"ok", "transient", "fatal"}

\* the factor 0.5 + random.random() lies in [0.5, 1.5); the model takes
\* its halves 1/2 and 2/2
JitterHalves == {1, 2}

RetryIdle == [pc |-> "idle", max_retries |-> 0, max_delay |-> 0, num_retries |-> 0,
              delay |-> 0, invocations |-> 0, result |-> "none"]

\* the except branch: num_retries += 1, then raise unless the error is
\* retryable and num_retries <= max_retries
RetryGivesUp(num_retries, max_retries, is_rate_limit) ==
    ~is_rate_limit \/ num_retries + 1 > max_retries

\* delay = min(delay * exponential_base, max_delay), then the jitter
NextDelay(delay, max_delay, jitter_halves) ==
    (Min(delay * exponential_base, max_delay) * jitter_halves) \div 2

\* the call of retry_with_exponential_backoff
RetryCall(c, profile) ==
    /\ retry[c].pc = "idle"
    /\ retry' = [retry EXCEPT ![c] =
                    [pc |-> "calling", max_retries |-> profile[1], max_delay |-> profile[3],
                     num_retries |-> 0, delay |-> profile[2], invocations |-> 0,
                     result |-> "none"]]

\* one pass of the loop: func is invoked and returns or raises
RetryInvoke(c, outcome, jitter_halves) ==
    LET me == retry[c]
    IN  /\ me.pc = "calling"
        /\ retry' = [retry EXCEPT ![c] =
               IF outcome = "ok"
               THEN [me EXCEPT !.pc = "done", !.invocations = @ + 1, !.result = "returned"]
               ELSE IF RetryGivesUp(me.num_retries, me.max_retries, outcome = "transient")
               THEN [me EXCEPT !.pc = "done", !.invocations = @ + 1,
                               !.num_retries = @ + 1, !.result = "raised"]
               ELSE [me EXCEPT !.pc = "sleeping", !.invocations = @ + 1,
                               !.num_retries = @ + 1,
                               !.delay = NextDelay(me.delay, me.max_delay, jitter_halves)]]

\* asyncio.sleep(delay) is over
RetryWake(c) ==
    /\ retry[c].pc = "sleeping"
    /\ retry' = [retry EXCEPT ![c].pc = "calling"]

\* the caller has the result or the exception
RetryEnd(c) ==
    /\ retry[c].pc = "done"
    /\ retry' = [retry EXCEPT ![c] = RetryIdle]

InitRetry == retry = [c \in RetryCallers |-> RetryIdle]

\* ========================================================================
\* Accounts: the users table behind the query cache, and the endpoints
\* send-code, register, reset-password and login (database.py, main.py)
\* ========================================================================

\* bound of the accounts model: requests and direct calls made
MaxAuthCalls == 5

\* @cached(ttl=600, key_prefix="user:username") / "user:email"
UserTtl == 600

Usernames == {"ann"}

\* "weak" stands for a password the strength checks refuse
Passwords == {"Old1pw", "New2pw", "weak"}

\* the instants the accounts model's clock visits
AuthGrid == {0, verification_ttl + 1, UserTtl}

\* get_password_hash: the bcrypt hash stands for the password it was made of
GetPasswordHash(password) == <<"bcrypt", password>>

\* verify_password(plain, hashed)
VerifyPassword(password, hashed_password) == hashed_password = GetPasswordHash(password)

\* the four checks of the password's strength
PasswordStrong(password) == password # "weak"

\* SELECT * FROM users WHERE <field> = ?  (fetchone)
SelectUser(table, field, arg) ==
    {r \in table : (IF field = "username" THEN r.username ELSE r.email) = arg}

\* get_user_by_username / get_user_by_email behind @cached: the row
\* returned (a set, empty for None) and the cache it leaves
GetUserBy(table, mc, field, arg, t) ==
    LET key == <<"user:" \o field, ":", arg>>
        hit == CacheGetValue(mc, key, t)
        mc1 == CacheAfterGet(mc, key, t)
        row == SelectUser(table, field, arg)
    IN  IF hit # {}
        THEN [result |-> hit, cache |-> mc1]
        ELSE [result |-> row,
              cache |-> IF row # {}
                        THEN CacheSet(mc1, key, CHOOSE r \in row : TRUE, UserTtl, t)
                        ELSE mc1]

\* update_user_password(email, hashed_password): the UPDATE; no cache
\* entry is touched
UpdatePassword(table, email, hashed_password) ==
    {IF r.email = email THEN [r EXCEPT !.hashed_password = hashed_password] ELSE r :
         r \in table}

NoAuth == [kind |-> "none", status |-> 0, detail |-> "", username |-> "",
           email |-> "", password |-> "", code |-> "", row |-> {}]

AuthOut(kind, status, detail, username, email, password, code, row) ==
    [kind |-> kind, status |-> status, detail |-> detail, username |-> username,
     email |-> email, password |-> password, code |-> code, row |-> row]

AuthCount ==
    /\ authCalls < MaxAuthCalls
    /\ authCalls' = authCalls + 1

\* POST /api/auth/send-code; code is what generate_verification_code drew
SendVerificationCodeEndpoint(email, code) ==
    /\ AuthCount
    /\ IF SelectUser(users, "email", email) # {}
       THEN /\ authOut' = AuthOut("send-code", 400, "Email already registered",
                                  "", email, "", "", {})
            /\ UNCHANGED verification_codes
       ELSE /\ verification_codes' =
                   DictPut(CleanupExpiredCodes(verification_codes, now), email,
                           [code |-> code, timestamp |-> now])
            /\ authOut' = AuthOut("send-code", 200, "", "", email, "", code, {})
    /\ UNCHANGED <<users, memory_cache>>

\* POST /api/auth/register
Register(username, email, code, password) ==
    LET v == VerifyCode(verification_codes, email, code, now)
        refused(detail) ==
            /\ authOut' = AuthOut("register", 400, detail, username, email,
                                  password, code, {})
            /\ UNCHANGED users
    IN  /\ AuthCount
        /\ IF SelectUser(users, "username", username) # {}
           THEN refused("Username already exists") /\ UNCHANGED verification_codes
           ELSE IF SelectUser(users, "email", email) # {}
           THEN refused("Email already registered") /\ UNCHANGED verification_codes
           ELSE IF ~PasswordStrong(password)
           THEN refused("weak password") /\ UNCHANGED verification_codes
           ELSE IF ~v.result
           THEN refused("Invalid or expired verification code")
                /\ verification_codes' = v.codes
           ELSE /\ verification_codes' = v.codes
                /\ users' = users \cup
                       {[id |-> Cardinality(users) + 1, username |-> username,
                         email |-> email,
                         hashed_password |-> GetPasswordHash(password)]}
                /\ authOut' = AuthOut("register", 200, "", username, email,
                                      password, code, {})
        /\ UNCHANGED memory_cache

\* POST /api/auth/reset-password
ResetPasswordEndpoint(email, code, password) ==
    LET got == GetUserBy(users, memory_cache, "email", email, now)
        v   == VerifyCode(verification_codes, email, code, now)
        refused(detail) ==
            /\ authOut' = AuthOut("reset-password", 400, detail, "", email,
                                  password, code, got.result)
            /\ UNCHANGED users
    IN  /\ AuthCount
        /\ memory_cache' = got.cache
        /\ IF got.result = {}
           THEN refused("Email not found") /\ UNCHANGED verification_codes
           ELSE IF ~PasswordStrong(password)
           THEN refused("weak password") /\ UNCHANGED verification_codes
           ELSE IF ~v.result
           THEN refused("Invalid or expired verification code")
                /\ verification_codes' = v.codes
           ELSE /\ verification_codes' = v.codes
                /\ users' = UpdatePassword(users, email, GetPasswordHash(password))
                /\ authOut' =
                       IF SelectUser(users, "email", email) # {}
                       THEN AuthOut("reset-password", 200, "", "", email,
                                    password, code, got.result)
                       ELSE AuthOut("reset-password", 500, "Failed to update password",
                                    "", email, password, code, got.result)

\* POST /api/auth/login: the password is compared with the row that
\* get_user_by_username returned
Login(username, password) ==
    LET got == GetUserBy(users, memory_cache, "username", username, now)
        ok  == /\ got.result # {}
               /\ \E r \in got.result : VerifyPassword(password, r.hashed_password)
    IN  /\ AuthCount
        /\ memory_cache' = got.cache
        /\ authOut' = AuthOut("login", IF ok THEN 200 ELSE 401,
                              IF ok THEN "" ELSE "Invalid username or password",
                              username, "", password, "", got.result)
        /\ UNCHANGED <<users, verification_codes>>

\* get_user_by_email(email) called on its own
ReadUserByEmail(email) ==
    LET got == GetUserBy(users, memory_cache, "email", email, now)
    IN  /\ AuthCount
        /\ memory_cache' = got.cache
        /\ authOut' = AuthOut("get_user_by_email", 0, "", "", email, "", "", got.result)
        /\ UNCHANGED <<users, verification_codes>>

\* update_user_password(email, hashed_password) called on its own
UpdateUserPassword(email, password) ==
    /\ AuthCount
    /\ users' = UpdatePassword(users, email, GetPasswordHash(password))
    /\ authOut' = AuthOut("update_user_password", 0, "", "", email, password, "",
                          SelectUser(users, "email", email))
    /\ UNCHANGED <<memory_cache, verification_codes>>

AdvanceAuthClock ==
    /\ \E t \in AuthGrid : t > now /\ now' = t
    /\ authOut' = NoAuth
    /\ UNCHANGED <<users, authCalls, memory_cache, verification_codes>>

InitAuth ==
    /\ users = {}
    /\ authOut = NoAuth
    /\ authCalls = 0

\* ========================================================================
\* SQLiteConnectionPool.close_all (database.py)
\* ========================================================================

\* close_all: every connection that is in the queue is taken out and
\* closed, until the queue is empty
CloseAll ==
    /\ closed_conns' = closed_conns \cup Range(pool)
    /\ pool' = <<>>
    /\ poolOut' = [NoPoolEvent EXCEPT !.kind = "close_all", !.idle_conns = Len(pool)]
    /\ UNCHANGED <<pthreads, conn_txn, db_rows, nextWrite, scopes>>

InitPoolClose ==
    closed_conns = {}

\* ========================================================================
\* CacheManager at capacity (cache.py, memory backend): which entries a
\* set evicts
\* ========================================================================

\* bound of the capacity model: reads and rewrites of keys already stored
MaxLruTouches == 1

\* the keys of the capacity model: "1", "2", ... , one more than fit
LruKeys == 1..(max_memory_items + 1)

\* the keys an operation reads or rewrites after they were stored
LruTouched == {1, 2}

\* the keys of a memory_cache, as numbers: the model stores n under str(n)
LruStored(mc) == {mc[i].value : i \in DOMAIN mc}

\* bound of the capacity model: the reads and rewrites are made when the
\* cache is at most this many entries short of its capacity
LruSlack == 2

LruNearlyFull == Len(memory_cache) >= max_memory_items - LruSlack

\* cache.set(key, value, ttl) of the next key not stored before
LruSetNew ==
    /\ lru_next \in LruKeys
    /\ memory_cache' = CacheSet(memory_cache, Str(lru_next), lru_next, ConversationTtl, now)
    /\ lru_ops' = lru_ops + 1
    /\ lru_used' = [lru_used EXCEPT ![lru_next] = lru_ops + 1]
    /\ lru_next' = lru_next + 1
    /\ UNCHANGED lru_touches

\* cache.set(key, value, ttl) of a key that is stored
LruSetAgain(k) ==
    /\ LruNearlyFull
    /\ k \in LruStored(memory_cache)
    /\ lru_touches < MaxLruTouches
    /\ memory_cache' = CacheSet(memory_cache, Str(k), k, ConversationTtl, now)
    /\ lru_ops' = lru_ops + 1
    /\ lru_used' = [lru_used EXCEPT ![k] = lru_ops + 1]
    /\ lru_touches' = lru_touches + 1
    /\ UNCHANGED lru_next

\* cache.get(key) of a key that is stored
LruGet(k) ==
    /\ LruNearlyFull
    /\ k \in LruStored(memory_cache)
    /\ lru_touches < MaxLruTouches
    /\ CacheGetValue(memory_cache, Str(k), now) # {}
    /\ memory_cache' = CacheAfterGet(memory_cache, Str(k), now)
    /\ lru_ops' = lru_ops + 1
    /\ lru_used' = [lru_used EXCEPT ![k] = lru_ops + 1]
    /\ lru_touches' = lru_touches + 1
    /\ UNCHANGED lru_next

InitLru ==
    /\ lru_used = [k \in LruKeys |-> 0]
    /\ lru_ops = 0
    /\ lru_touches = 0
    /\ lru_next = 1

\* ========================================================================
\* Error messages on their way to the client: sanitize_error_message and
\* the except clauses of the endpoints (main.py)
\* ========================================================================

\* bound of the error-message model: the pieces of a raised message
MaxErrTokens == 2

\* A message is the sequence of its whitespace-separated pieces.  The
\* pieces of the model: plain words, a URL, an API key, an
\* `api_key=` assignment, a bearer token (scheme and credential, one
\* piece), a provider brand, and words the sanitizer looks for.
ErrTokens == {"failed", "timeout", "https://api.host/v1", "sk-abc123",
              "api_key=abc123", "Bearer eyJhbGci", "OpenAI", "Traceback",
              "LongText"}

ErrMessages == UNION {[1..n -> ErrTokens] : n \in 0..MaxErrTokens}

\* len(piece); LongText stands for a text of 201 characters
TokenLen(token) ==
    CASE token = "failed" -> 6
      [] token = "timeout" -> 7
      [] token = "https://api.host/v1" -> 19
      [] token = "sk-abc123" -> 9
      [] token = "api_key=abc123" -> 14
      [] token = "Bearer eyJhbGci" -> 15
      [] token = "OpenAI" -> 6
      [] token = "Traceback" -> 9
      [] token = "[URL_REMOVED]" -> 13
      [] token = "[API_KEY_REMOVED]" -> 17
      [] token = "LongText" -> 201
      [] OTHER -> 1

\* len(error_msg): the pieces and the blanks between them
RECURSIVE MsgLen(_)
MsgLen(msg) ==
    IF msg = <<>> THEN 0
    ELSE IF Len(msg) = 1 THEN TokenLen(msg[1])
    ELSE TokenLen(Head(msg)) + 1 + MsgLen(Tail(msg))

\* service.lower() in error_lower, for a service of SENSITIVE_SERVICES
HasBrand(token) == token = "OpenAI"

\* keyword in error_lower for 'traceback', 'stack', 'exception', 'raise'
HasKeyword(token) == token = "Traceback"

\* the three re.sub calls on one piece: https?://[^\s]+ , then
\* api[_-]?key[=:]\s*\S+ , then sk-[^\s]+
SubToken(token) ==
    IF token = "https://api.host/v1" THEN "[URL_REMOVED]"
    ELSE IF token = "api_key=abc123" THEN "[API_KEY_REMOVED]"
    ELSE IF token = "sk-abc123" THEN "[API_KEY_REMOVED]"
    ELSE token

GenericError == <<"An internal error occurred. Please try again.">>

\* sanitize_error_message
SanitizeErrorMessage(error_msg) ==
    IF error_msg = <<>> THEN GenericError
    ELSE IF \E i \in DOMAIN error_msg : HasBrand(error_msg[i]) THEN GenericError
    ELSE LET subbed == [i \in DOMAIN error_msg |-> SubToken(error_msg[i])]
         IN  IF MsgLen(subbed) > 200
                \/ \E i \in DOMAIN error_msg : HasKeyword(error_msg[i])
             THEN GenericError
             ELSE subbed

\* the except clause of send_message: a fixed text for the errors it
\* recognises, else the sanitized message inside a fixed sentence
ChatErrorDetail(error_msg) ==
    IF \E i \in DOMAIN error_msg : error_msg[i] = "timeout"
    THEN <<"request timed out">>
    ELSE <<"error:">> \o SanitizeErrorMessage(error_msg)

\* the except clause of get_or_create_user_config
ConfigErrorDetail(error_msg) ==
    <<"Configuration error:">> \o SanitizeErrorMessage(error_msg)

\* the except clause of enhance_instruction: detail = str(e)
EnhanceErrorDetail(error_msg) == error_msg

ErrEndpoints == {"chat", "config", "enhance"}

NoError == [endpoint |-> "none", raised |-> <<>>, detail |-> <<>>]

\* an endpoint's work raises error_msg and its except clause answers 500
RaiseError(endpoint, error_msg) ==
    sanOut' = [endpoint |-> endpoint, raised |-> error_msg,
               detail |-> CASE endpoint = "chat" -> ChatErrorDetail(error_msg)
                            [] endpoint = "config" -> ConfigErrorDetail(error_msg)
                            [] OTHER -> EnhanceErrorDetail(error_msg)]

InitSanitize ==
    sanOut = NoError

\* ========================================================================
\* SmartChunker (smart_chunker.py): chunk_text with the auto strategy
\* ========================================================================

chunk_size == 1000
overlap == 200
min_chunk_size == 100
max_chunk_size == 2000

\* bound of the chunker model: the lengths of the texts handed to
\* chunk_text, around min_chunk_size, around the overlap and up to the
\* last length the auto strategy treats as short
MaxTextLen == 499
TextLens == (97..127) \cup {199, 200, 201, 202, 300, 498, MaxTextLen}

\* A text is its length and the positions (from 0, as Python counts) of
\* its blanks.  The texts are clean already: no blank at either end and
\* no two blanks in a row, so _clean_text leaves them as they are.
TextSpaces == {{}, {1}, {50}}
ChunkTexts == [len : TextLens, spaces : TextSpaces]

\* A chunk is the slice <<a, b>> of the text it holds: text[a:b].
SliceLen(slice) == slice[2] - slice[1]

\* str.strip() on the slice text[a:b]
Strip(text, slice) ==
    LET a == IF slice[1] < slice[2] /\ slice[1] \in text.spaces
             THEN slice[1] + 1 ELSE slice[1]
        b == IF a < slice[2] /\ (slice[2] - 1) \in text.spaces
             THEN slice[2] - 1 ELSE slice[2]
    IN  <<a, b>>

\* _select_strategy, for the texts of the model (all shorter than 500)
SelectStrategy(text) ==
    IF text.len < 500 THEN "fixed" ELSE "hybrid"

\* the next start of the window: start = max(start + 1, end - overlap)
NextStart(start, end) == Max(start + 1, end - overlap)

\* one pass of the while loop of _chunk_fixed_length, from the window
\* start with the chunks acc collected so far: the chunks after the pass.
\* The search for a break point runs only when end < text_length, which
\* needs a text longer than chunk_size; the texts of the model are shorter.
FixedPassChunks(text, start, acc) ==
    LET end == Min(start + chunk_size, text.len)
        chunk == Strip(text, <<start, end>>)
    IN  IF SliceLen(chunk) > 0 /\ SliceLen(chunk) >= min_chunk_size
        THEN Append(acc, chunk) ELSE acc

\* ... and the window start after the pass
FixedPassStart(text, start) ==
    NextStart(start, Min(start + chunk_size, text.len))

\* _post_process_chunks
PostProcessChunks(text, acc) ==
    LET big == SelectSeq(acc, LAMBDA c : ~(SliceLen(c) < min_chunk_size))
    IN  [i \in DOMAIN big |->
            Strip(text, IF SliceLen(big[i]) > max_chunk_size
                        THEN <<big[i][1], big[i][1] + max_chunk_size>>
                        ELSE big[i])]

NoChunks == [kind |-> "none", text |-> [len |-> 0, spaces |-> {}],
             strategy |-> "none", start |-> 0, chunks |-> <<>>]

\* chunk_text(text, strategy='auto') up to the loop of
\* _chunk_fixed_length.  The call runs alone; its loop is followed pass
\* by pass, and chunkOut.kind tells where the call is.
ChunkTextBegin(text) ==
    /\ chunkOut.kind # "running"
    /\ chunkOut' = [kind |-> "running", text |-> text,
                    strategy |-> SelectStrategy(text),
                    start |-> 0, chunks |-> <<>>]

\* while start < text_length: one pass
ChunkFixedPass ==
    /\ chunkOut.kind = "running"
    /\ chunkOut.start < chunkOut.text.len
    /\ chunkOut' = [chunkOut EXCEPT
                      !.chunks = FixedPassChunks(chunkOut.text, chunkOut.start, @),
                      !.start = FixedPassStart(chunkOut.text, @)]

\* the loop is over: _post_process_chunks and return
ChunkTextReturn ==
    /\ chunkOut.kind = "running"
    /\ ~(chunkOut.start < chunkOut.text.len)
    /\ chunkOut' = [chunkOut EXCEPT
                      !.kind = "chunk_text",
                      !.chunks = PostProcessChunks(chunkOut.text, @)]

InitChunker ==
    chunkOut = NoChunks

\* ========================================================================
\* State, initial condition and the specifications
\* ========================================================================

VecVars == <<documents, chunks, nextDocId, pending, searchOut>>

SessVars == <<conversations, nextConvId, messages, memory_cache, valOut>>

RateVars == <<request_counts, blacklist, rlOut, admitted, denials, calls, resets, threads>>

PoolVars == <<pool, pthreads, conn_txn, db_rows, nextWrite, scopes, poolOut>>

VerVars == <<verification_codes, verification_lock, vthreads, verified, vOut>>

LockVars == <<cm_locks, cm_threads>>

\* the variables of the subsystems that are not named above
SemVars == <<sem_cache, sem_threads, semOut>>

\* what the request handlers keep besides the stores above
HandlerVars == <<user_documents, temp_files, documents_loaded, nextTemp, chat, handled, reqOut>>

TwoLevelVars == <<tl_documents, tl_summaries, tl_chunks, tl_nextDocId, tlOut>>

RetryVars == <<retry>>

AuthVars == <<users, authOut, authCalls>>

ExtVarsButAuth == <<LockVars, cwriter, SemVars, HandlerVars, TwoLevelVars, RetryVars>>

PoolCloseVars == <<closed_conns>>

LruVars == <<lru_used, lru_ops, lru_touches, lru_next>>

SanVars == <<sanOut>>

ChunkVars == <<chunkOut>>

ExtVars == <<ExtVarsButAuth, AuthVars, PoolCloseVars, LruVars, SanVars, ChunkVars>>

vars == <<documents, chunks, nextDocId, pending, searchOut,
          conversations, nextConvId, messages, memory_cache, valOut,
          request_counts, blacklist, rlOut, admitted, denials, calls, resets, threads,
          pool, pthreads, conn_txn, db_rows, nextWrite, scopes, poolOut,
          verification_codes, verification_lock, vthreads, verified, vOut,
          cm_locks, cm_threads, cwriter,
          sem_cache, sem_threads, semOut,
          user_documents, temp_files, documents_loaded, nextTemp, chat, handled, reqOut,
          tl_documents, tl_summaries, tl_chunks, tl_nextDocId, tlOut,
          retry,
          users, authOut, authCalls,
          closed_conns,
          lru_used, lru_ops, lru_touches, lru_next,
          sanOut,
          chunkOut,
          now>>

InitVec ==
    /\ documents = {}
    /\ chunks = <<>>
    /\ nextDocId = 1
    /\ pending = NoTxn
    /\ searchOut = NoSearch

InitSess ==
    /\ conversations = {}
    /\ nextConvId = 1
    /\ messages = <<>>
    /\ memory_cache = <<>>
    /\ valOut = NoValidate

InitRate ==
    /\ request_counts = <<>>
    /\ blacklist = <<>>
    /\ rlOut = NoCheck
    /\ admitted = <<>>
    /\ denials = [u \in RLAllUsers |-> [all |-> <<>>, since |-> <<>>]]
    /\ calls = 0
    /\ resets = 0
    /\ threads = [th \in RLThreads |-> IdleThread]

\* __init__ has filled the queue with pool_size connections
InitPool ==
    /\ pool = [i \in 1..pool_size |-> i]
    /\ pthreads = [th \in PoolThreads |-> PoolIdle]
    /\ conn_txn = [c \in 1..(pool_size + 1) |-> {}]
    /\ db_rows = {}
    /\ nextWrite = 1
    /\ scopes = [ok |-> {}, failed |-> {}]
    /\ poolOut = NoPoolEvent

InitVer ==
    /\ verification_codes = <<>>
    /\ verification_lock = 0
    /\ vthreads = [th \in VThreads |-> VIdle]
    /\ verified = [e \in Emails |-> 0]
    /\ vOut = NoVerify

InitSem ==
    /\ sem_cache = <<>>
    /\ sem_threads = [th \in SemThreads |-> SemIdle]
    /\ semOut = NoAnswer

InitHandlers ==
    /\ user_documents = {}
    /\ temp_files = {}
    /\ documents_loaded = FALSE
    /\ nextTemp = 1
    /\ chat = [s \in ChatSlots |-> ChatIdle]
    /\ handled = 0
    /\ reqOut = NoRequest

InitLocks ==
    /\ cm_locks = [l \in CMLocks |-> 0]
    /\ cm_threads = [th \in CMThreads |-> CMIdle]

Init ==
    /\ InitVec
    /\ InitSess
    /\ InitRate
    /\ InitPool
    /\ InitVer
    /\ InitLocks
    /\ cwriter = WriterIdle
    /\ InitSem
    /\ InitHandlers
    /\ InitChunker
    /\ InitSanitize
    /\ InitLru
    /\ InitPoolClose
    /\ InitAuth
    /\ InitRetry
    /\ InitTwoLevel
    /\ now = 0

\* the chunk lists that the model's add_document calls pass
TextSeqs == {<<"a">>, <<"b">>, <<"a", "b">>}

NextVector ==
    \/ \E f \in Filenames, ts \in TextSeqs, c \in ConvIds \cup {NULL} :
           AddDocumentBegin(f, ts, c) /\ UNCHANGED <<SessVars, RateVars, PoolVars, VerVars, ExtVars, now>>
    \/ AddDocumentCommit /\ UNCHANGED <<SessVars, RateVars, PoolVars, VerVars, ExtVars, now>>
    \/ AddDocumentRollback /\ UNCHANGED <<SessVars, RateVars, PoolVars, VerVars, ExtVars, now>>
    \/ \E q \in Queries, k \in TopKs, c \in ConvIds \cup {NULL} :
           Search(q, k, c) /\ UNCHANGED <<SessVars, RateVars, PoolVars, VerVars, ExtVars, now>>

SpecVector == Init /\ [][NextVector]_vars

NextSession ==
    \/ \E u \in UserIds : CreateConversation(u) /\ UNCHANGED <<VecVars, RateVars, PoolVars, VerVars, ExtVars, now>>
    \/ \E c \in 1..MaxConvs, u \in UserIds :
           DeleteConversation(c, u) /\ UNCHANGED <<VecVars, RateVars, PoolVars, VerVars, ExtVars, now>>
    \/ \E c \in 1..MaxConvs, u \in UserIds :
           UpdateConversationTitle(c, u) /\ UNCHANGED <<VecVars, RateVars, PoolVars, VerVars, ExtVars, now>>
    \/ \E c \in 1..MaxConvs :
           AddMessage(c, "user") /\ UNCHANGED <<VecVars, RateVars, PoolVars, VerVars, ExtVars, now>>
    \/ \E c \in 1..MaxConvs, u \in UserIds, ra \in BOOLEAN :
           ValidateAccess(c, u, ra) /\ UNCHANGED <<VecVars, RateVars, PoolVars, VerVars, ExtVars, now>>
    \/ AdvanceClock /\ UNCHANGED <<VecVars, RateVars, PoolVars, VerVars, ExtVars>>

SpecSession == Init /\ [][NextSession]_vars

NextRate ==
    \/ \E u \in RLUsers, rq \in RLRequests :
           Check(u, rq[1], rq[2]) /\ UNCHANGED <<VecVars, SessVars, PoolVars, VerVars, ExtVars, now>>
    \/ \E u \in RLUsers : Reset(u) /\ UNCHANGED <<VecVars, SessVars, PoolVars, VerVars, ExtVars, now>>
    \/ AdvanceRLClock /\ UNCHANGED <<VecVars, SessVars, PoolVars, VerVars, ExtVars>>

SpecRate == Init /\ [][NextRate]_vars

\* check_rate_limit called with costs other than the default: register at
\* cost 1, at a cost of two, and at a cost above its limit of 3
RLCostRequests == {<<"register", 1>>, <<"register", 2>>, <<"register", 4>>}

NextRateCost ==
    \/ \E u \in RLUsers, rq \in RLCostRequests :
           Check(u, rq[1], rq[2]) /\ UNCHANGED <<VecVars, SessVars, PoolVars, VerVars, ExtVars, now>>
    \/ AdvanceRLClock /\ UNCHANGED <<VecVars, SessVars, PoolVars, VerVars, ExtVars>>

SpecRateCost == Init /\ [][NextRateCost]_vars

\* bound of the several-user model: calls of check_rate_limit
MaxUserCalls == 5

\* several users on one limiter: register at a cost that fills the window,
\* so that the next call of the user is a violation
NextRateUsers ==
    \/ \E u \in RLAllUsers :
           calls < MaxUserCalls /\ Check(u, "register", 3) /\ UNCHANGED <<VecVars, SessVars, PoolVars, VerVars, ExtVars, now>>
    \/ \E u \in RLAllUsers : Reset(u) /\ UNCHANGED <<VecVars, SessVars, PoolVars, VerVars, ExtVars, now>>
    \/ AdvanceRLClock /\ UNCHANGED <<VecVars, SessVars, PoolVars, VerVars, ExtVars>>

SpecRateUsers == Init /\ [][NextRateUsers]_vars

NextRateThreads ==
    \/ \E th \in RLThreads, u \in RLUsers, rq \in RLRequests :
           ThreadBegin(th, u, rq[1], rq[2]) /\ UNCHANGED <<VecVars, SessVars, PoolVars, VerVars, ExtVars, now>>
    \/ \E th \in RLThreads : ThreadEvict(th) /\ UNCHANGED <<VecVars, SessVars, PoolVars, VerVars, ExtVars, now>>
    \/ \E th \in RLThreads : ThreadCount(th) /\ UNCHANGED <<VecVars, SessVars, PoolVars, VerVars, ExtVars, now>>
    \/ \E th \in RLThreads : ThreadDecide(th) /\ UNCHANGED <<VecVars, SessVars, PoolVars, VerVars, ExtVars, now>>
    \/ AdvanceRLClock /\ UNCHANGED <<VecVars, SessVars, PoolVars, VerVars, ExtVars>>

SpecRateThreads == Init /\ [][NextRateThreads]_vars

OtherThanPool == <<VecVars, SessVars, RateVars, VerVars, ExtVars, now>>

NextPool ==
    \/ \E th \in PoolThreads : PoolGetStart(th) /\ UNCHANGED OtherThanPool
    \/ \E th \in PoolThreads : PoolGetFinish(th) /\ UNCHANGED OtherThanPool
    \/ PoolTick /\ UNCHANGED OtherThanPool
    \/ \E th \in PoolThreads : BodyWrite(th) /\ UNCHANGED OtherThanPool
    \/ \E th \in PoolThreads, body \in BodyOutcomes :
           BodyEnd(th, body) /\ UNCHANGED OtherThanPool

SpecPool == Init /\ [][NextPool]_vars

OtherThanVer == <<VecVars, SessVars, RateVars, PoolVars, ExtVars>>

NextVerify ==
    \/ \E e \in Emails, c \in Codes :
           SetVerificationCode(e, c) /\ UNCHANGED <<OtherThanVer, now>>
    \/ \E th \in VThreads, e \in Emails, c \in Codes :
           VerifyCall(th, e, c) /\ UNCHANGED <<OtherThanVer, now>>
    \/ \E th \in VThreads : VerifyAcquire(th) /\ UNCHANGED <<OtherThanVer, now>>
    \/ \E th \in VThreads : VerifyBody(th) /\ UNCHANGED <<OtherThanVer, now>>
    \/ \E th \in VThreads : VerifyReturn(th) /\ UNCHANGED <<OtherThanVer, now>>
    \/ AdvanceVClock /\ UNCHANGED OtherThanVer

SpecVerify == Init /\ [][NextVerify]_vars

OtherThanLocks == <<VecVars, SessVars, RateVars, PoolVars, VerVars, cwriter, SemVars,
                    HandlerVars,
        TwoLevelVars,
        RetryVars,
        AuthVars,
        PoolCloseVars,
        LruVars,
        SanVars,
        ChunkVars, now>>

NextLocks ==
    \/ \E th \in CMThreads, op \in CMOps : CMCall(th, op) /\ UNCHANGED OtherThanLocks
    \/ \E th \in CMThreads : CMAcquire(th) /\ UNCHANGED OtherThanLocks
    \/ \E th \in CMThreads : CMBody(th) /\ UNCHANGED OtherThanLocks
    \/ \E th \in CMThreads : CMRelease(th) /\ UNCHANGED OtherThanLocks

SpecLocks == Init /\ [][NextLocks]_vars

OtherThanWriter == <<VecVars, RateVars, PoolVars, VerVars, LockVars, SemVars, HandlerVars,
        TwoLevelVars,
        RetryVars,
        AuthVars,
        PoolCloseVars,
        LruVars,
        SanVars,
        ChunkVars>>

NextCacheRace ==
    \/ \E op \in WriterOps, c \in 1..MaxConvs, u \in UserIds :
           WriterExecute(op, c, u) /\ UNCHANGED <<OtherThanWriter, now>>
    \/ WriterInvalidate /\ UNCHANGED <<OtherThanWriter, now>>
    \/ WriterCommit /\ UNCHANGED <<OtherThanWriter, now>>
    \/ \E c \in 1..MaxConvs, u \in UserIds :
           ReadConversation(c, u) /\ UNCHANGED <<OtherThanWriter, now>>
    \/ \E u \in UserIds : ReadUserConversations(u) /\ UNCHANGED <<OtherThanWriter, now>>
    \/ WriterClock /\ UNCHANGED OtherThanWriter

SpecCacheRace == Init /\ [][NextCacheRace]_vars

OtherThanSem == <<VecVars, SessVars, RateVars, PoolVars, VerVars, LockVars, cwriter,
                  HandlerVars,
        TwoLevelVars,
        RetryVars,
        AuthVars,
        PoolCloseVars,
        LruVars,
        SanVars,
        ChunkVars, now>>

NextSemCache ==
    \/ \E q \in SemQuestions, a \in SemAnswers, c \in ConvIds :
           SemSetCall(q, a, c) /\ UNCHANGED OtherThanSem
    \/ \E th \in SemThreads, q \in SemQuestions, c \in ConvIds :
           AnswerBegin(th, q, c) /\ UNCHANGED OtherThanSem
    \/ \E th \in SemThreads, a \in SemAnswers :
           AnswerFinish(th, a) /\ UNCHANGED OtherThanSem

SpecSemCache == Init /\ [][NextSemCache]_vars

\* the semantic cache while time passes; the calls are those of one
\* conversation and the answers are not empty
AdvanceSemClock ==
    /\ \E t \in SemGrid : t > now /\ now' = t
    /\ semOut' = NoAnswer
    /\ UNCHANGED <<sem_cache, sem_threads>>

OtherThanSemClock == <<VecVars, SessVars, RateVars, PoolVars, VerVars, LockVars, cwriter,
                       HandlerVars, TwoLevelVars, RetryVars, AuthVars, PoolCloseVars,
        LruVars,
        SanVars,
        ChunkVars>>

NextSemTtl ==
    \/ \E q \in SemQuestions :
           SemSetCall(q, "x", 1) /\ UNCHANGED OtherThanSem
    \/ \E th \in SemThreads, q \in SemQuestions :
           AnswerBegin(th, q, 1) /\ UNCHANGED OtherThanSem
    \/ \E th \in SemThreads :
           AnswerFinish(th, "x") /\ UNCHANGED OtherThanSem
    \/ AdvanceSemClock /\ UNCHANGED OtherThanSemClock

SpecSemTtl == Init /\ [][NextSemTtl]_vars

\* what the chat handler leaves alone, and what no handler touches
UploadVars == <<VecVars, user_documents, temp_files, documents_loaded, nextTemp>>

OtherThanChat == <<rlOut, admitted, denials, calls, resets, threads,
                   PoolVars, VerVars, LockVars, cwriter, SemVars,
        TwoLevelVars,
        RetryVars,
        AuthVars,
        PoolCloseVars,
        LruVars,
        SanVars,
        ChunkVars>>

LLMOutcomes == {"ok", "failed", "abandoned"}

NextChat ==
    \/ \E s \in ChatSlots, c \in (1..MaxConvs) \cup {NULL} :
           ChatStart(s, c) /\ UNCHANGED <<UploadVars, OtherThanChat, now>>
    \/ \E s \in ChatSlots, o \in LLMOutcomes, done \in 0..2 :
           ChatLLM(s, o, done) /\ UNCHANGED <<UploadVars, OtherThanChat, now>>
    \/ \E s \in ChatSlots, o \in {"ok", "abandoned"}, done \in 0..3 :
           ChatTitle(s, o, done) /\ UNCHANGED <<UploadVars, OtherThanChat, now>>
    \/ \E s \in ChatSlots, o \in {"ok", "abandoned"} :
           ChatFollowUp(s, o) /\ UNCHANGED <<UploadVars, OtherThanChat, now>>
    \/ \E c \in (1..MaxConvs) \cup {NULL}, is_pdf \in BOOLEAN,
          o \in UploadOutcomes :
           UploadDocument(c, is_pdf, o) /\ UNCHANGED <<OtherThanChat, now>>
    \/ \E op \in {"chat", "upload"} :
           RequestBurst(op) /\ UNCHANGED <<OtherThanChat, now>>
    \/ OtherUserConversation /\ UNCHANGED <<UploadVars, OtherThanChat, now>>
    \/ \E c \in 1..MaxConvs :
           DeleteConversationEndpoint(c) /\ UNCHANGED <<UploadVars, OtherThanChat, now>>
    \/ ChatClock /\ UNCHANGED <<UploadVars, OtherThanChat>>

SpecChat == Init /\ [][NextChat]_vars

\* documents of the user: chat turns that open conversations, uploads,
\* clear_documents, delete_conversation and the status endpoint
NextDocuments ==
    \/ ChatStart(1, NULL) /\ UNCHANGED <<UploadVars, OtherThanChat, now>>
    \/ \E done \in 0..2 :
           ChatLLM(1, "ok", done) /\ UNCHANGED <<UploadVars, OtherThanChat, now>>
    \/ \E done \in 0..3 :
           ChatTitle(1, "ok", done) /\ UNCHANGED <<UploadVars, OtherThanChat, now>>
    \/ ChatFollowUp(1, "ok") /\ UNCHANGED <<UploadVars, OtherThanChat, now>>
    \/ \E c \in (1..MaxConvs) \cup {NULL}, is_pdf \in BOOLEAN,
          o \in UploadOutcomes :
           UploadDocument(c, is_pdf, o) /\ UNCHANGED <<OtherThanChat, now>>
    \/ \E removed \in BOOLEAN :
           ClearDocuments(removed) /\ UNCHANGED <<OtherThanChat, now>>
    \/ \E c \in 1..MaxConvs :
           DeleteConversationEndpoint(c) /\ UNCHANGED <<UploadVars, OtherThanChat, now>>
    \/ GetDocumentStatus /\ UNCHANGED <<UploadVars, OtherThanChat, now>>

SpecDocuments == Init /\ [][NextDocuments]_vars

OtherThanTwoLevel == <<VecVars, SessVars, RateVars, PoolVars, VerVars, LockVars, cwriter,
                       SemVars, HandlerVars,
        RetryVars,
        AuthVars,
        PoolCloseVars,
        LruVars,
        SanVars,
        ChunkVars, now>>

NextTwoLevel ==
    \/ \E f \in Filenames, ts \in TextSeqs, st \in SummaryTexts, c \in ConvIds \cup {NULL} :
           AddDocumentWithSummary(f, ts, st, c) /\ UNCHANGED OtherThanTwoLevel
    \/ \E q \in Queries, k \in TopKs, c \in ConvIds \cup {NULL}, md \in MaxDocuments :
           TwoLevelSearch(q, k, c, md) /\ UNCHANGED OtherThanTwoLevel

SpecTwoLevel == Init /\ [][NextTwoLevel]_vars

OtherThanSession == <<VecVars, RateVars, PoolVars, VerVars, ExtVars>>

NextCleanup ==
    \/ \E u \in UserIds : CreateConversation(u) /\ UNCHANGED <<OtherThanSession, now>>
    \/ \E c \in 1..MaxConvs : AddMessage(c, "user") /\ UNCHANGED <<OtherThanSession, now>>
    \/ \E u \in UserIds : ListConversations(u) /\ UNCHANGED <<OtherThanSession, now>>
    \/ \E u \in UserIds : CleanupExpired(u) /\ UNCHANGED <<OtherThanSession, now>>
    \/ AdvanceClock /\ UNCHANGED OtherThanSession

SpecCleanup == Init /\ [][NextCleanup]_vars

OtherThanRetry == <<VecVars, SessVars, RateVars, PoolVars, VerVars, LockVars, cwriter,
                    SemVars, HandlerVars, TwoLevelVars,
        AuthVars,
        PoolCloseVars,
        LruVars,
        SanVars,
        ChunkVars, now>>

NextRetry ==
    \/ \E c \in RetryCallers, p \in RetryProfiles : RetryCall(c, p) /\ UNCHANGED OtherThanRetry
    \/ \E c \in RetryCallers, o \in Invocations, j \in JitterHalves :
           RetryInvoke(c, o, j) /\ UNCHANGED OtherThanRetry
    \/ \E c \in RetryCallers : RetryWake(c) /\ UNCHANGED OtherThanRetry
    \/ \E c \in RetryCallers : RetryEnd(c) /\ UNCHANGED OtherThanRetry

SpecRetry == Init /\ [][NextRetry]_vars

\* the chat handler alone, with every way its answer step can end
NextAnswer ==
    \/ \E s \in ChatSlots, c \in (1..MaxConvs) \cup {NULL} :
           ChatStart(s, c) /\ UNCHANGED <<UploadVars, OtherThanChat, now>>
    \/ \E s \in ChatSlots, o \in AiResponses \cup {"abandoned"}, done \in 0..2 :
           ChatLLM(s, o, done) /\ UNCHANGED <<UploadVars, OtherThanChat, now>>
    \/ \E s \in ChatSlots, o \in {"ok", "abandoned"}, done \in 0..3 :
           ChatTitle(s, o, done) /\ UNCHANGED <<UploadVars, OtherThanChat, now>>
    \/ \E s \in ChatSlots, o \in {"ok", "abandoned"} :
           ChatFollowUp(s, o) /\ UNCHANGED <<UploadVars, OtherThanChat, now>>

SpecAnswer == Init /\ [][NextAnswer]_vars

\* everything the accounts model leaves alone
OtherThanAuth == <<VecVars, conversations, nextConvId, messages, valOut, RateVars,
                   PoolVars, verification_lock, vthreads, verified, vOut,
                   ExtVarsButAuth,
        PoolCloseVars,
        LruVars,
        SanVars,
        ChunkVars>>

\* the endpoints of the accounts
NextAuth ==
    \/ \E e \in Emails, c \in Codes :
           SendVerificationCodeEndpoint(e, c) /\ UNCHANGED <<OtherThanAuth, now>>
    \/ \E u \in Usernames, e \in Emails, c \in Codes, p \in Passwords :
           Register(u, e, c, p) /\ UNCHANGED <<OtherThanAuth, now>>
    \/ \E e \in Emails, c \in Codes, p \in Passwords :
           ResetPasswordEndpoint(e, c, p) /\ UNCHANGED <<OtherThanAuth, now>>
    \/ \E u \in Usernames, p \in Passwords :
           Login(u, p) /\ UNCHANGED <<OtherThanAuth, now>>
    \/ AdvanceAuthClock /\ UNCHANGED OtherThanAuth

SpecAuth == Init /\ [][NextAuth]_vars

\* the accounts with the database functions called on their own
NextUserCache ==
    \/ \E e \in Emails, c \in Codes :
           SendVerificationCodeEndpoint(e, c) /\ UNCHANGED <<OtherThanAuth, now>>
    \/ \E u \in Usernames, e \in Emails, c \in Codes, p \in Passwords \ {"weak"} :
           Register(u, e, c, p) /\ UNCHANGED <<OtherThanAuth, now>>
    \/ \E u \in Usernames, p \in Passwords \ {"weak"} :
           Login(u, p) /\ UNCHANGED <<OtherThanAuth, now>>
    \/ \E e \in Emails : ReadUserByEmail(e) /\ UNCHANGED <<OtherThanAuth, now>>
    \/ \E e \in Emails, p \in Passwords \ {"weak"} :
           UpdateUserPassword(e, p) /\ UNCHANGED <<OtherThanAuth, now>>
    \/ AdvanceAuthClock /\ UNCHANGED OtherThanAuth

SpecUserCache == Init /\ [][NextUserCache]_vars

\* the pool in use, with close_all called at any moment
OtherThanPoolClose == <<VecVars, SessVars, RateVars, VerVars, ExtVarsButAuth, AuthVars,
        LruVars,
        SanVars,
        ChunkVars, now>>

NextPoolClose ==
    \/ \E th \in PoolThreads : PoolGetStart(th) /\ UNCHANGED OtherThanPool
    \/ \E th \in PoolThreads : PoolGetFinish(th) /\ UNCHANGED OtherThanPool
    \/ PoolTick /\ UNCHANGED OtherThanPool
    \/ \E th \in PoolThreads : BodyWrite(th) /\ UNCHANGED OtherThanPool
    \/ \E th \in PoolThreads, body \in BodyOutcomes :
           BodyEnd(th, body) /\ UNCHANGED OtherThanPool
    \/ CloseAll /\ UNCHANGED OtherThanPoolClose

SpecPoolClose == Init /\ [][NextPoolClose]_vars

\* the query-result cache filled to its capacity
OtherThanLru == <<VecVars, conversations, nextConvId, messages, valOut, RateVars,
                  PoolVars, VerVars, ExtVarsButAuth, AuthVars, PoolCloseVars,
        SanVars,
        ChunkVars, now>>

NextLru ==
    \/ LruSetNew /\ UNCHANGED OtherThanLru
    \/ \E k \in LruTouched : LruSetAgain(k) /\ UNCHANGED OtherThanLru
    \/ \E k \in LruTouched : LruGet(k) /\ UNCHANGED OtherThanLru

SpecLru == Init /\ [][NextLru]_vars

\* errors raised inside the endpoints
OtherThanSanitize == <<VecVars, SessVars, RateVars, PoolVars, VerVars, ExtVarsButAuth,
                       AuthVars, PoolCloseVars, LruVars,
        ChunkVars, now>>

NextSanitize ==
    \E ep \in ErrEndpoints, m \in ErrMessages :
        RaiseError(ep, m) /\ UNCHANGED OtherThanSanitize

SpecSanitize == Init /\ [][NextSanitize]_vars

\* texts handed to the chunker
OtherThanChunker == <<VecVars, SessVars, RateVars, PoolVars, VerVars, ExtVarsButAuth,
                      AuthVars, PoolCloseVars, LruVars, SanVars, now>>

NextChunker ==
    \/ \E text \in ChunkTexts : ChunkTextBegin(text) /\ UNCHANGED OtherThanChunker
    \/ ChunkFixedPass /\ UNCHANGED OtherThanChunker
    \/ ChunkTextReturn /\ UNCHANGED OtherThanChunker

SpecChunker == Init /\ [][NextChunker]_vars

ChunkById(id) == CHOOSE r \in Range(chunks) : r.id = id

C3_Ownership ==
    (valOut.called /\ valOut.ok) => valOut.owners = {valOut.user_id}

\* access to another user's conversation was refused with require_active
\* off while the cache held a live copy of that conversation
C3_Witness ==
    /\ valOut.called
    /\ ~valOut.ok
    /\ ~valOut.require_active
    /\ valOut.owners # {}
    /\ valOut.user_id \notin valOut.owners
    /\ valOut.cached_for # {}

\* C4: for a conversation the caller owns, validate_conversation_access
\* with require_active fails when the last activity recorded in the store
\* is more than expiry_days old and succeeds when it is within expiry_days;
\* without require_active it succeeds in both cases.
C4_Expiry ==
    (valOut.called /\ valOut.owners = {valOut.user_id}) =>
        \A last \in valOut.last_activity :
            valOut.ok <=> (~valOut.require_active
                              \/ valOut.at - last <= ExpirySeconds)

\* C5 (as stated): on a key whose admitted requests since it was fresh all
\* lie within the current window, a call of cost 1 is allowed while fewer
\* than L requests have been admitted, and is denied with retry-after at
\* most W once L have been admitted.
C5_FreshKeyQuota ==
    (rlOut.called /\ rlOut.cost = 1 /\ rlOut.prior = rlOut.fresh_since) =>
        /\ (rlOut.prior < Limits(rlOut.operation)[1] => rlOut.allowed)
        /\ (rlOut.prior >= Limits(rlOut.operation)[1] =>
               ~rlOut.allowed /\ rlOut.retry <= Limits(rlOut.operation)[2])

\* C5 (amended): the same, for calls made while the user is not blacklisted.
C5_FreshKeyQuotaUnblocked ==
    (rlOut.called /\ rlOut.cost = 1 /\ rlOut.prior = rlOut.fresh_since
        /\ ~rlOut.blocked) =>
        /\ (rlOut.prior < Limits(rlOut.operation)[1] => rlOut.allowed)
        /\ (rlOut.prior >= Limits(rlOut.operation)[1] =>
               ~rlOut.allowed /\ rlOut.retry <= Limits(rlOut.operation)[2])

\* C5 witness: the (L+1)-th call of cost 1 on a key, made within the window
\* of the first L by a user who is not blacklisted, was denied.
C5_Witness ==
    /\ rlOut.called
    /\ rlOut.cost = 1
    /\ ~rlOut.blocked
    /\ rlOut.prior = Limits(rlOut.operation)[1]
    /\ rlOut.prior = rlOut.fresh_since
    /\ ~rlOut.allowed
    /\ rlOut.retry > 0

AdmittedInWindow(key, i) ==
    LET w == Limits(key[Len(key)])[2]
        a == admitted[key]
    IN  Cardinality({j \in DOMAIN a : a[j] > a[i] - w /\ a[j] <= a[i]})

\* C7: under concurrent check calls the number of requests admitted on a
\* key within any single window never exceeds the key's limit.
C7_WindowNeverExceeded ==
    \A key \in DOMAIN admitted : \A i \in DOMAIN admitted[key] :
        AdmittedInWindow(key, i) <= Limits(key[Len(key)])[1]

\* the connections checked out of the pool
CheckedOut == {th \in PoolThreads : pthreads[th].pc = "body"}

C9_ScopedRelease ==
    /\ \A i \in DOMAIN pool : conn_txn[pool[i]] = {}
    /\ db_rows = scopes.ok
    /\ db_rows \cap scopes.failed = {}
    /\ poolOut.kind = "exit" =>
           /\ poolOut.returned
           /\ poolOut.commit <=> poolOut.body = "ok"
           /\ poolOut.body # "ok" => poolOut.rollback /\ poolOut.raised
           /\ poolOut.body = "ok" => ~poolOut.raised

\* C9 witness: a body that had written raised something `except Exception`
\* does not catch, and its connection was returned.
C9_Witness ==
    /\ poolOut.kind = "exit"
    /\ poolOut.body = "BaseException"
    /\ poolOut.wrote # {}
    /\ poolOut.returned
    /\ poolOut.conn \in Range(pool)

\* C10: between two settings of an email's code at most one verify_code
\* returns True, and the code is gone once one has; the call that runs
\* while the stored, unexpired code equals the code it presents returns
\* True, every other call returns False.
C10_CodeConsumedOnce ==
    /\ \A e \in Emails : verified[e] <= 1
    /\ \A e \in Emails : verified[e] = 1 => e \notin DOMAIN verification_codes
    /\ vOut.called => (vOut.result <=> vOut.valid_at_body)
    /\ (vOut.called /\ vOut.result) => ~vOut.stored_after

\* C10 witness: of two concurrent calls that both presented the stored,
\* valid code, one had returned True and this one returned False.
C10_Witness ==
    /\ vOut.called
    /\ ~vOut.result
    /\ vOut.valid_at_call
    /\ verified[vOut.email] = 1
    /\ ~vOut.stored_after

\* the threads that are blocked in acquire() on a lock that has a holder
CMBlocked == {th \in CMThreads : cm_threads[th].pc = "acquire" /\ cm_locks[WantedLock(th)] # 0}

\* C11: the ConfigManager operations cannot deadlock: there is no set of
\* threads each blocked on a lock held by a thread of the set, and a thread
\* asking for a lock holds only locks that come earlier in the order
\* configs, sessions, verification.
C11_NoDeadlock ==
    /\ ~ \E S \in SUBSET CMBlocked :
           /\ S # {}
           /\ \A th \in S : cm_locks[WantedLock(th)] \in S
    /\ \A th \in CMThreads :
           cm_threads[th].pc = "acquire" =>
               \A l \in HeldLocks(th) : LockRank(l) < LockRank(WantedLock(th))

\* C11 witness: get_stats holds configs and sessions and is blocked on
\* verification, held by a single-lock operation, while clear_all is blocked
\* on configs.
C11_Witness ==
    \E a, b, c \in CMThreads :
        /\ cm_threads[a].op = "get_stats" /\ HeldLocks(a) = {"configs", "sessions"}
        /\ a \in CMBlocked
        /\ cm_threads[b].op \in VerificationOps /\ cm_locks["verification"] = b
        /\ cm_threads[c].op = "clear_all" /\ c \in CMBlocked

\* C12: once add_message has committed, get_conversation_by_id returns the
\* stored row with its refreshed updated_at: no unexpired cached copy of a
\* conversation differs from the row the table holds.
C12_CachedReadsFresh ==
    \A i \in DOMAIN memory_cache :
        (memory_cache[i].key[1] = "conversation" /\ now < memory_cache[i].expires) =>
            \A r \in conversations :
                r.id = memory_cache[i].value.id => memory_cache[i].value = r

\* C13: once create_conversation, delete_conversation or
\* update_conversation_title has returned, no unexpired cache entry holds
\* the state from before the mutation: a cached conversation row is the
\* stored row and a cached conversation list is the stored list.
C13_NoStaleEntryAfterCommit ==
    cwriter.pc = "idle" =>
        \A i \in DOMAIN memory_cache :
            now < memory_cache[i].expires =>
                IF memory_cache[i].key[1] = "conversation"
                THEN memory_cache[i].value \in conversations
                ELSE \E u \in UserIds :
                         /\ memory_cache[i].key = CacheKey("conversations", <<u>>)
                         /\ memory_cache[i].value =
                                SelectUserConversations(conversations, messages, u)

\* C20: ingestion never stores a chunk without a conversation: add_document
\* called with conversation_id absent stores nothing, so every committed
\* chunk row has a conversation_id.
C20_MandatoryBinding ==
    \A i \in DOMAIN chunks : chunks[i].conversation_id # NULL

\* C17: the semantic cache never holds an entry whose answer is empty:
\* set called with an empty answer leaves the cache as it was.
C17_NoEmptyAnswerStored ==
    \A i \in DOMAIN sem_cache : sem_cache[i].answer # ""

\* C18: concurrent answer() calls for the same question in the same
\* conversation leave a single cache entry for that question.
C18_SingleEntryPerQuestion ==
    \A i, j \in DOMAIN sem_cache :
        (/\ sem_cache[i].via = "answer" /\ sem_cache[j].via = "answer"
         /\ sem_cache[i].question = sem_cache[j].question
         /\ sem_cache[i].conversation_id = sem_cache[j].conversation_id) => i = j

\* C19: an answer returned as a cache hit was stored while serving the
\* conversation that is being answered now.
C19_ScopedHit ==
    (semOut.called /\ semOut.cache_hit) =>
        semOut.entry_conversation = semOut.conversation_id

\* the messages of one role in one conversation
TurnMessages(conversation_id, role) ==
    {i \in DOMAIN messages : /\ messages[i].conversation_id = conversation_id
                             /\ messages[i].role = role}

\* C14: the chat pipeline persists a turn as one unit: whatever fails and
\* however requests interleave, no conversation holds the user message of
\* a turn without its assistant message.
C14_TurnAtomic ==
    \A c \in 1..MaxConvs :
        Cardinality(TurnMessages(c, "user")) = Cardinality(TurnMessages(c, "assistant"))

\* the relational store: conversations, messages, document records
RelationalStore == <<conversations, nextConvId, messages, user_documents>>

\* C15: a chat request writes no message row and no conversation row
\* before its LLM answer is there: the step that takes it to the LLM call,
\* and the step in which it fails or is abandoned before the answer, leave
\* the relational store as it was.
C15_NothingBeforeAnswer ==
    [][((\E s \in ChatSlots : chat[s].pc = "idle" /\ chat'[s].pc = "llm")
          \/ (/\ reqOut'.kind = "chat"
              /\ reqOut'.reason \in {"llm failed", "abandoned before the answer"}))
       => UNCHANGED RelationalStore]_vars

\* a chat request on a conversation that holds messages has failed in its
\* LLM call or was abandoned during it
C15_Witness ==
    /\ reqOut.kind = "chat"
    /\ reqOut.reason \in {"llm failed", "abandoned before the answer"}
    /\ reqOut.conversation_id # NULL
    /\ TurnMessages(reqOut.conversation_id, "user") # {}

\* C16: a chat or upload request that the rate limiter, the ownership
\* check or the expiry check rejects writes nothing: no message,
\* conversation or document row, no vector chunk, no temporary file, no
\* session flag.
C16_RejectionWritesNothing ==
    [][(reqOut'.kind \in {"chat", "upload"} /\ reqOut'.reason \in RejectReasons)
       => UNCHANGED <<RelationalStore, documents, chunks, nextDocId,
                      temp_files, nextTemp, documents_loaded>>]_vars

\* an upload to the user's own conversation was rejected as expired
C16_Witness ==
    /\ reqOut.kind = "upload"
    /\ reqOut.status = 400
    /\ reqOut.reason = "expired"
    /\ \E r \in conversations : r.id = reqOut.conversation_id /\ r.user_id = MainUserId

\* C21: search_two_level called without a conversation_id returns the
\* empty list, whatever the index holds.
C21_UnboundSearchEmpty ==
    (tlOut.called /\ tlOut.conversation_id = NULL) => tlOut.ids = <<>>

\* C22: deleting a conversation cascades: the step in which a conversation
\* row goes away leaves no message row and no user-document row of that
\* conversation behind.
C22_DeleteCascades ==
    [][\A c \in 1..MaxConvs :
          (/\ \E r \in conversations : r.id = c
           /\ ~ \E r \in conversations' : r.id = c)
          => /\ \A i \in DOMAIN messages' : messages'[i].conversation_id # c
             /\ \A d \in user_documents' : d.conversation_id # c]_vars

\* C23: cleanup_expired(u) deletes exactly the conversations of u that are
\* expired by the updated_at the relational store holds at the call: none
\* of them is left, and no conversation with activity within expiry_days
\* and no conversation of another user goes.
C23_CleanupExact ==
    [][\A u \in UserIds :
          CleanupExpired(u) =>
              conversations' = {r \in conversations :
                                   ~(r.user_id = u /\ IsConversationExpired(r, now))}]_vars

\* C24: with max_retries = 3 the wrapped call is invoked at most 3 times
\* in all, never a fourth time.
C24_AtMostThreeAttempts ==
    \A c \in RetryCallers : retry[c].max_retries = 3 => retry[c].invocations <= 3

\* C25: when the LLM provider call fails, the failure text is never
\* stored as an assistant message and never on its way to the client as
\* the answer of a successful chat request.
C25_NoFailureTextAsAnswer ==
    /\ \A i \in DOMAIN messages :
           messages[i].role = "assistant" => messages[i].content # "error text"
    /\ \A s \in ChatSlots :
           chat[s].pc = "followup" => chat[s].ai_response # "error text"

\* C26: a chat request on an existing conversation c that goes on to
\* report success has stored, in the step that ends its LLM call, one new
\* user message followed by one new assistant message in c, also when c
\* was deleted or changed while the LLM call was in flight.
C26_SuccessHasBothMessages ==
    [][\A s \in ChatSlots :
          (/\ chat[s].pc = "llm"
           /\ chat[s].conversation_id # NULL
           /\ chat'[s].pc = "followup")
          => /\ Len(messages') = Len(messages) + 2
             /\ SubSeq(messages', 1, Len(messages)) = messages
             /\ messages'[Len(messages) + 1].conversation_id = chat[s].conversation_id
             /\ messages'[Len(messages) + 1].role = "user"
             /\ messages'[Len(messages) + 2].conversation_id = chat[s].conversation_id
             /\ messages'[Len(messages) + 2].role = "assistant"]_vars

\* C27: an upload that fails after its temporary file has been created
\* (it answers 500) leaves no temporary file behind, records no
\* UserDocument row, does not set documents_loaded, and reports the error.
C27_FailedUploadCleansUp ==
    [][(reqOut'.kind = "upload" /\ reqOut'.status = 500)
          => /\ temp_files' = temp_files
             /\ user_documents' = user_documents
             /\ documents_loaded' = documents_loaded]_vars

\* C28: a check(user, op, cost) of a user who is not blacklisted, made when
\* the requests of the window plus cost exceed the limit, returns a denial,
\* records one violation and appends no timestamp to the window -- for
\* every cost >= 1 and every window content, the empty window with a cost
\* above the limit included.
C28_OverQuotaDeniedAndRecorded ==
    [][\A u \in RLUsers, rq \in RLCostRequests :
          LET key    == RLKey(u, rq[1])
              vkey   == RLKey(u, "violations")
              window == Newer(DictGet(request_counts, key), now - Limits(rq[1])[2])
          IN  (/\ Check(u, rq[1], rq[2])
               /\ ~IsBlocked(blacklist, u, now)
               /\ Len(window) + rq[2] > Limits(rq[1])[1])
              => /\ rlOut'.kind = "limited"
                 /\ ~rlOut'.allowed
                 /\ DictGet(request_counts', vkey)
                        = Append(Newer(DictGet(request_counts, vkey),
                                       now - ViolationWindow), now)
                 /\ DictGet(request_counts', key) = window]_vars

\* the user a rate-limiter key f"{user_id}:{operation}" was built for: the
\* key without its last two pieces, the colon and the operation
KeyOwner(key) == SubSeq(key, 1, Len(key) - 2)

\* C29: reset(u) removes every rate-limiter key of user u, the timestamp
\* list of every operation and the violation history, and neither removes
\* nor alters a key of any other user, users whose identifier starts with
\* u's identifier included.
C29_ResetOnlyOwnKeys ==
    [][\A u \in RLAllUsers :
          Reset(u) =>
              /\ \A k \in DOMAIN request_counts :
                     KeyOwner(k) = u => k \notin DOMAIN request_counts'
              /\ \A k \in DOMAIN request_counts :
                     KeyOwner(k) # u => /\ k \in DOMAIN request_counts'
                                        /\ request_counts'[k] = request_counts[k]]_vars

\* C30: the blacklist is time-bounded.  A check is refused from the
\* blacklist exactly when its user has an entry with now < blocked_until.
\* Such a refusal changes neither blocked_until nor any counter, so the
\* entry runs out whatever the user sends meanwhile.
\* A check of a user whose entry has run out (now >= blocked_until) removes
\* the entry and is decided by the sliding-window quota alone: it is
\* admitted exactly when the requests of the window plus its cost are
\* within the limit, so a user whose window has emptied is admitted again.
C30_BlacklistTimeBounded ==
    [][\A u \in RLUsers, rq \in RLRequests :
          LET window == Newer(DictGet(request_counts, RLKey(u, rq[1])),
                              now - Limits(rq[1])[2])
          IN  Check(u, rq[1], rq[2]) =>
                /\ (rlOut'.kind = "blocked")
                       <=> (u \in DOMAIN blacklist /\ now < blacklist[u])
                /\ rlOut'.kind = "blocked" =>
                       /\ blacklist' = blacklist
                       /\ request_counts' = request_counts
                /\ (u \in DOMAIN blacklist /\ now >= blacklist[u]) =>
                       /\ u \notin DOMAIN blacklist'
                       /\ rlOut'.allowed <=> (Len(window) + rq[2] <= Limits(rq[1])[1])
                       /\ window = <<>> => rlOut'.allowed]_vars

\* C30 witness: a user blacklisted by a fifth denial is admitted by a check
\* made once the 30 minutes are over, and the entry is gone.
C30_Witness ==
    /\ rlOut.called
    /\ rlOut.allowed
    /\ rlOut.user_id \notin DOMAIN blacklist
    /\ \E f \in rlOut.fifth_since : rlOut.at >= f + BlacklistSeconds

\* C31: when the body of verify_code has run, the verification-code map
\* holds no entry, for any email, whose age exceeds the TTL of 360 s,
\* whether or not the supplied code matched.
C31_VerifySweepsExpired ==
    [][\A th \in VThreads :
          VerifyBody(th) =>
              \A e \in DOMAIN verification_codes' :
                  ~CodeExpired(verification_codes'[e], now)]_vars

\* C32: cached user reads are invalidated on password change.  Once
\* update_user_password has committed, get_user_by_email returns the row
\* of the table, hashed_password included, and a login is decided on the
\* stored hash: it succeeds exactly when the password given is the one
\* stored for that user.
C32_UserReadsSeeNewPassword ==
    [][/\ \A e \in Emails :
            ReadUserByEmail(e) => authOut'.row = SelectUser(users, "email", e)
       /\ \A u \in Usernames, p \in Passwords :
            (Login(u, p) /\ SelectUser(users, "username", u) # {})
            => ((authOut'.status = 200)
                   <=> \E r \in SelectUser(users, "username", u) :
                           VerifyPassword(p, r.hashed_password))]_vars

\* no reset-password request has been answered with success
ResetPasswordNeverSucceeds ==
    ~(authOut.kind = "reset-password" /\ authOut.status = 200)

\* C40: password reset is reachable.  The sequence of calls that is to
\* reach it starts with a verification code requested for the email of a
\* registered user: that request is answered with success and leaves a
\* code for the email that reset-password will accept within the TTL.
C40_CodeIssuedForRegisteredEmail ==
    [][\A e \in Emails, c \in Codes :
          (SendVerificationCodeEndpoint(e, c) /\ SelectUser(users, "email", e) # {})
          => /\ authOut'.status = 200
             /\ CodeValid(verification_codes', e, c, now)]_vars

\* C33: when close_all() returns, every connection the pool created is
\* closed, the connections that were checked out at the time included.
C33_CloseAllClosesEvery ==
    [][CloseAll => \A c \in PooledConns : c \in closed_conns']_vars

\* C34: an entry stored by set with the TTL of 3600 s is never returned by
\* get once more than 3600 s have passed since it was stored: the entry a
\* lookup answers from is at most semantic_ttl seconds old.
C34_NoHitAfterTtl ==
    [][\A th \in SemThreads, q \in SemQuestions :
          (AnswerBegin(th, q, 1) /\ semOut'.cache_hit)
          => \A e \in SemanticGet(sem_cache, EmbedQuestion(q)) :
                 now - e.created_at <= semantic_ttl]_vars

\* the in-memory query-result cache never holds more than 500 entries
CacheWithinCapacity == Len(memory_cache) <= max_memory_items

\* C35: the in-memory query-result cache never holds more than 500 entries
\* and evicts least-recently-used first: when a set evicts entries, no
\* evicted entry was read or written more recently than an entry that the
\* set keeps.
C35_EvictionIsLru ==
    [][LET before  == LruStored(memory_cache)
           after   == LruStored(memory_cache')
           evicted == before \ after
       IN  /\ Len(memory_cache') <= max_memory_items
           /\ \A e \in evicted, k \in before \cap after :
                  lru_used[e] <= lru_used[k]]_vars

\* row x ranks before row y: more similar to q, or as similar and inserted
\* earlier (the lower chunk id)
RanksBefore(x, y, q) ==
    \/ SimLess(y.embedding, x.embedding, q)
    \/ SimEq(x.embedding, y.embedding, q) /\ x.id < y.id

\* the first min(top_k, N) of the loaded rows in that ranking, as chunk ids
RankedTopK(rows, q, top_k) ==
    LET n == Min(top_k, Len(rows))
        S == Range(rows)
        p == CHOOSE a \in Arrangements(S, n) :
                 /\ \A i \in 1..(n - 1) : RanksBefore(a[i], a[i + 1], q)
                 /\ \A x \in S \ Range(a) : \A i \in 1..n : RanksBefore(a[i], x, q)
    IN  [i \in 1..n |-> p[i].id]

\* C36: search returns exactly the first min(top_k, N) of the N loaded
\* chunks of the conversation in the order of decreasing similarity with
\* ties broken in favour of the lower chunk id, and never more than top_k
\* elements.
C36_TopKLowerIdFirst ==
    [][\A q \in Queries, k \in TopKs, c \in ConvIds :
          Search(q, k, c) =>
              /\ Len(searchOut'.ids) <= k
              /\ searchOut'.ids = RankedTopK(SearchRows(chunks, c, SearchLimit(k)), q, k)]_vars

\* a piece of a message that must not reach the client: an API-key-shaped
\* string, a bearer token, a URL or a provider brand
SensitiveToken(token) ==
    token \in {"sk-abc123", "Bearer eyJhbGci", "https://api.host/v1", "OpenAI"}

\* C37: no error detail answered to a client holds an API-key-shaped
\* string, a bearer token, a URL or a provider brand.
C37_NoSensitiveDetail ==
    \A i \in DOMAIN sanOut.detail : ~SensitiveToken(sanOut.detail[i])

\* the same for the details that went through sanitize_error_message
SanitizedDetailClean ==
    sanOut.endpoint \in {"chat", "config"} =>
        \A i \in DOMAIN sanOut.detail :
            sanOut.detail[i] \in {"sk-abc123", "https://api.host/v1", "OpenAI"} => FALSE

\* C38: chunk_text with the auto strategy on a text of at least
\* min_chunk_size and fewer than 500 characters selects the fixed strategy
\* and returns exactly one chunk, the whole text.
C38_ShortTextOneChunk ==
    (chunkOut.kind = "chunk_text"
        /\ chunkOut.text.len >= min_chunk_size /\ chunkOut.text.len < 500) =>
        /\ chunkOut.strategy = "fixed"
        /\ chunkOut.chunks = << <<0, chunkOut.text.len>> >>

\* the first chunk of such a text is the whole text
ShortTextFirstChunkWhole ==
    (chunkOut.kind = "chunk_text"
        /\ chunkOut.text.len >= min_chunk_size /\ chunkOut.text.len < 500) =>
        /\ chunkOut.strategy = "fixed"
        /\ Len(chunkOut.chunks) >= 1
        /\ chunkOut.chunks[1] = <<0, chunkOut.text.len>>

\* C39: whenever the relational records say that the user has documents
\* in a conversation, the user's vector store holds a chunk bound to that
\* conversation; and once clear_documents has answered success, the user
\* has no document record left, so the status endpoint reports none.
C39_RecordsMatchIndex ==
    /\ \A c \in 1..MaxConvs :
           HasUserDocuments(user_documents, MainUserId, c) =>
               \E i \in DOMAIN chunks : chunks[i].conversation_id = c
    /\ (reqOut.kind = "clear" /\ reqOut.status = 200) =>
           ~HasUserDocuments(user_documents, MainUserId, NULL)

\* until the first clear_documents or failed removal the records and the
\* index agree: a record is written only after its chunks are stored
C39_UploadStoresChunksFirst ==
    [][\A c \in (1..MaxConvs) \cup {NULL}, is_pdf \in BOOLEAN, o \in UploadOutcomes :
          (UploadDocument(c, is_pdf, o) /\ user_documents' # user_documents) =>
              \E i \in DOMAIN chunks' : chunks'[i].conversation_id = c]_vars

====
